---- MODULE Spec2Model ----
(***************************************************************************)
(* Peek cursor engine of the partitioned transaction log:                  *)
(*   - StorageTeamPeekCursor (leaf cursor, one storage team)               *)
(*   - BroadcastedStorageTeamPeekCursor_Ordered / _Unordered (merge)       *)
(* modelled from fdbserver/ptxn/TLogPeekCursor.actor.cpp, driven either by *)
(* an arbitrary caller (Spec) or by the consumer loop of                   *)
(* getAllMessageFromCursor in test/TestTLogPeek.actor.cpp (SpecLoop).      *)
(***************************************************************************)
EXTENDS Integers, Sequences, FiniteSets, TLC

\* ------------------------------------------------------------------ bounds
NumTeams == 2
NumVersions == 2
MaxItems == 2
MaxVersionsPerPeek == 2
RetryTimes == 2
BeginVersion == 1

Teams == 1..NumTeams

\* ------------------------------------------------------- program constants
invalidVersion == -1

\* ----------------------------------------------------------------- state
VARIABLES
    tlog,                          \* team -> committed VSMs <<version, subsequence>> held by the TLog
    replicaViews,                  \* <<maxKnownVersion, minKnownCommittedVersion>> pairs a replica may report
    driver,                        \* the caller: "free" (any operation at any time), "track" (the same,
                                   \* remembering what get() returned) or "loop" (getAllMessageFromCursor)
    cursorType,                    \* "leaf", "ordered" or "unordered"
    reportEmptyVersion,            \* StorageTeamPeekCursor::reportEmptyVersion
    mapper,                        \* StorageTeamIDCursorMapper::mapper (its key set)
    lastVersion,                   \* team -> StorageTeamPeekCursor::lastVersion
    leafMaxKnownVersion,           \* team -> leaf maxKnownVersion
    leafMinKnownCommittedVersion,  \* team -> leaf minKnownCommittedVersion
    deserializer,                  \* team -> VSMs of the last reply handed to the deserializer
    wrappedDeserializerIter,       \* team -> position in deserializer, Len+1 is end()
    pCursorContainer,              \* heap array (ordered) or deque (unordered) of team ids
    emptyCursorStorageTeamIDs,
    retiredCursorStorageTeamIDs,
    currentVersion,
    remoteMoreAvailableSnapshot,   \* [needSnapshot, version, pCursorContainer]
    maxKnownVersion,               \* merge cursor watermark
    minKnownCommittedVersion,      \* merge cursor watermark
    peek,                          \* team -> state of the peekSingleCursor task of the pending call
    pc,                            \* position of the caller
    result,                        \* outcome of the last completed operation
    failure,                       \* "none", "assert" (failed ASSERT) or "undefined" (undefined behaviour)
    messages,                      \* loop: VSMs collected by the first iteration of every round
    batch,                         \* loop: VSMs of the first iteration of the current round (S1)
    batchDup,                      \* loop: VSMs of the iteration after reset() (S2)
    emittedBefore,                 \* VSMs returned by get() before the most recent refill (a
                                   \* remoteMoreAvailable that returned true)
    emittedSince,                  \* VSMs returned by get() since the most recent refill
    emittedPass,                   \* VSMs returned since the most recent refill or reset
    lastGet,                       \* the last get(): [vsm, old, again], vsm = <<>> when there was none since
                                   \* the last remoteMoreAvailable or reset
    advance,                       \* the advanceTo actor: its target, whether it is running, and what
                                   \* it has done so far
    preCall,                       \* the cursor as the latest remoteMoreAvailable call found it
                                   \* (kept for a caller that may cancel)
    commitRecord,                  \* test: [messages, order] the commit records of
                                   \* getMessagesFromMutableTeams and the order in which a
                                   \* version's storage teams are iterated
    activeStorageServerTeams,      \* getMessagesFromMutableTeams::activeStorageServerTeams
    messagesFromCommitRecord,      \* getMessagesFromMutableTeams::result
    lastReply,                     \* team -> [endVersion, maxKnownVersion, minKnownCommittedVersion]
                                   \* of the latest TLogPeekReply with messages the leaf received
    oracleAt,                      \* getMessagesFromMutableTeams: [commitVersion, index] of the
                                   \* loops, index 0 once result is sorted and returned
    serverPeekCursor               \* the ServerPeekCursor: its fields messageVersion, end, hasMsg,
                                   \* rd, results, numMessagesInCurrentVersion,
                                   \* messageIndexInCurrentVersion and more, the begin of its
                                   \* pending request, and whether end_of_stream was caught

vars == <<tlog, replicaViews, driver, cursorType, reportEmptyVersion, mapper, lastVersion,
          leafMaxKnownVersion, leafMinKnownCommittedVersion, deserializer,
          wrappedDeserializerIter, pCursorContainer, emptyCursorStorageTeamIDs,
          retiredCursorStorageTeamIDs, currentVersion, remoteMoreAvailableSnapshot,
          maxKnownVersion, minKnownCommittedVersion, peek, pc, result, failure,
          messages, batch, batchDup, emittedBefore, emittedSince, emittedPass, lastGet,
          advance, preCall, commitRecord, activeStorageServerTeams,
          messagesFromCommitRecord, oracleAt, lastReply, serverPeekCursor>>

envVars == <<tlog, replicaViews, driver, cursorType, reportEmptyVersion>>
leafVars == <<lastVersion, leafMaxKnownVersion, leafMinKnownCommittedVersion, deserializer,
              wrappedDeserializerIter>>
mergeVars == <<mapper, pCursorContainer, emptyCursorStorageTeamIDs, retiredCursorStorageTeamIDs,
               currentVersion, remoteMoreAvailableSnapshot, maxKnownVersion,
               minKnownCommittedVersion>>
loopGhost == <<messages, batch, batchDup>>
freeGhost == <<emittedBefore, emittedSince, emittedPass, lastGet>>
oracleVars == <<commitRecord, activeStorageServerTeams, messagesFromCommitRecord, oracleAt>>

\* ------------------------------------------------------------ the TLog
\* Subsequences are handed out round-robin over the teams of a commit, so the
\* k-th message of team t at one version has subsequence t + (k-1)*NumTeams.
\* A version without messages for a team holds one EmptyVersion record, which
\* the deserializer reports with subsequence 0.
VersionItems(t, v, n) ==
    IF n = 0 THEN << <<v, 0>> >>
    ELSE [k \in 1..n |-> <<v, t + (k - 1) * NumTeams>>]

RECURSIVE TeamLog(_, _, _)
TeamLog(t, counts, v) ==
    IF v > Len(counts) THEN <<>>
    ELSE VersionItems(t, v, counts[v]) \o TeamLog(t, counts, v + 1)

CountSeqs == UNION {[1..n -> 0..MaxItems] : n \in 0..NumVersions}

IsEmptyVersionMessage(vsm) == vsm[2] = 0

\* TLogPeekReply for a request beginning at `begin` that carries the next n
\* committed versions of the team: the records, and endVersion, the exclusive
\* upper bound of the returned range.
VersionsFrom(log, begin) == {log[i][1] : i \in {j \in 1..Len(log) : log[j][1] >= begin}}

RECURSIVE SetToSortedSeq(_)
SetToSortedSeq(S) ==
    IF S = {} THEN <<>>
    ELSE LET m == CHOOSE x \in S : \A y \in S : x <= y
         IN <<m>> \o SetToSortedSeq(S \ {m})

PeekReply(log, begin, n) ==
    LET vs == SetToSortedSeq(VersionsFrom(log, begin))
        last == vs[n]
    IN [data |-> SelectSeq(log, LAMBDA m : m[1] >= begin /\ m[1] <= last),
        endVersion |-> last + 1]

\* --------------------------------------------------------- leaf cursor
\* StorageTeamPeekCursor::hasRemainingImpl: the position after skipping
\* EmptyVersion records when they are not reported.
RECURSIVE SkipEmptyVersions(_, _)
SkipEmptyVersions(buf, pos) ==
    IF pos <= Len(buf) /\ IsEmptyVersionMessage(buf[pos])
    THEN SkipEmptyVersions(buf, pos + 1)
    ELSE pos

hasRemainingImplLeaf(buf, pos, report) == IF report THEN pos ELSE SkipEmptyVersions(buf, pos)

\* A merge cursor only holds leaves that report empty versions (addCursorImpl).
LeafReady(bufs, poss, t) == poss[t] <= Len(bufs[t])

NoKey == <<>>

\* getVersion()/getSubsequence() of every leaf; NoKey where get() would
\* dereference the end iterator.
LeafKeys(bufs, poss) == [t \in Teams |-> IF LeafReady(bufs, poss, t) THEN bufs[t][poss[t]] ELSE NoKey]

operatorSpaceship(a, b) ==
    IF a[1] < b[1] THEN -1
    ELSE IF a[1] > b[1] THEN 1
    ELSE IF a[2] < b[2] THEN -1
    ELSE IF a[2] > b[2] THEN 1
    ELSE 0

\* ------------------------------------------------------ cursor containers
\* A container operation yields [ub, c]: ub is set when a comparison needs
\* get() of a leaf that has no buffered VSM.
\* OrderedCursorContainer::heapElementComparator: *e1 > *e2.
\* The comparator of a max-heap: the greatest element is on top.
heapElementComparatorLess(keys, e1, e2) == operatorSpaceship(keys[e1], keys[e2]) < 0

heapElementComparator(keys, e1, e2) == operatorSpaceship(keys[e1], keys[e2]) > 0

ComparatorUndefined(keys, e1, e2) == keys[e1] = NoKey \/ keys[e2] = NoKey

\* std::__push_heap on 0-based holeIndex/topIndex.
RECURSIVE PushHeapFrom(_, _, _, _, _)
PushHeapFrom(keys, c, holeIndex, topIndex, value) ==
    IF holeIndex > topIndex
    THEN LET parent == (holeIndex - 1) \div 2
         IN IF ComparatorUndefined(keys, c[parent + 1], value)
            THEN [ub |-> TRUE, c |-> c]
            ELSE IF heapElementComparator(keys, c[parent + 1], value)
                 THEN PushHeapFrom(keys, [c EXCEPT ![holeIndex + 1] = c[parent + 1]],
                                   parent, topIndex, value)
                 ELSE [ub |-> FALSE, c |-> [c EXCEPT ![holeIndex + 1] = value]]
    ELSE [ub |-> FALSE, c |-> [c EXCEPT ![holeIndex + 1] = value]]

\* The descent of std::__adjust_heap: the hole moves to the child that the
\* comparator ranks first.
RECURSIVE AdjustDown(_, _, _, _, _)
AdjustDown(keys, c, holeIndex, secondChild, len) ==
    IF secondChild < (len - 1) \div 2
    THEN LET sc == 2 * (secondChild + 1)
         IN IF ComparatorUndefined(keys, c[sc + 1], c[sc])
            THEN [ub |-> TRUE, c |-> c, holeIndex |-> holeIndex, secondChild |-> secondChild]
            ELSE LET pick == IF heapElementComparator(keys, c[sc + 1], c[sc]) THEN sc - 1 ELSE sc
                 IN AdjustDown(keys, [c EXCEPT ![holeIndex + 1] = c[pick + 1]], pick, pick, len)
    ELSE [ub |-> FALSE, c |-> c, holeIndex |-> holeIndex, secondChild |-> secondChild]

AdjustHeap(keys, c, holeIndex, len, value) ==
    LET d == AdjustDown(keys, c, holeIndex, holeIndex, len)
    IN IF d.ub THEN [ub |-> TRUE, c |-> c]
       ELSE IF len % 2 = 0 /\ d.secondChild = (len - 2) \div 2
            THEN LET sc == 2 * (d.secondChild + 1)
                 IN PushHeapFrom(keys, [d.c EXCEPT ![d.holeIndex + 1] = d.c[sc]],
                                 sc - 1, holeIndex, value)
            ELSE PushHeapFrom(keys, d.c, d.holeIndex, holeIndex, value)

\* OrderedCursorContainer::pushImpl: push_back, std::push_heap.
OrderedPush(keys, c, e) == PushHeapFrom(keys, Append(c, e), Len(c), 0, e)

\* OrderedCursorContainer::popImpl: std::pop_heap, pop_back.
OrderedPop(keys, c) ==
    LET n == Len(c)
    IN IF n <= 1 THEN [ub |-> FALSE, c |-> <<>>]
       ELSE LET r == AdjustHeap(keys, [c EXCEPT ![n] = c[1]], 0, n - 1, c[n])
            IN [ub |-> r.ub, c |-> SubSeq(r.c, 1, n - 1)]

\* std::make_heap: adjust every parent, last one first.
RECURSIVE MakeHeapFrom(_, _, _)
MakeHeapFrom(keys, c, parent) ==
    IF parent < 0 THEN [ub |-> FALSE, c |-> c]
    ELSE LET r == AdjustHeap(keys, c, parent, Len(c), c[parent + 1])
         IN IF r.ub THEN r ELSE MakeHeapFrom(keys, r.c, parent - 1)

MakeHeap(keys, c) == IF Len(c) < 2 THEN [ub |-> FALSE, c |-> c]
                     ELSE MakeHeapFrom(keys, c, (Len(c) - 2) \div 2)

\* OrderedCursorContainer::eraseImpl
OrderedErase(keys, c, t) == MakeHeap(keys, SelectSeq(c, LAMBDA e : e # t))

\* UnorderedCursorContainer: push_back / pop_front / erase.
UnorderedPush(c, e) == [ub |-> FALSE, c |-> Append(c, e)]
UnorderedPop(c) == [ub |-> FALSE, c |-> Tail(c)]
UnorderedErase(c, t) == [ub |-> FALSE, c |-> SelectSeq(c, LAMBDA e : e # t)]

ContainerPush(type, keys, c, e) ==
    IF type = "ordered" THEN OrderedPush(keys, c, e) ELSE UnorderedPush(c, e)
ContainerPop(type, keys, c) ==
    IF type = "ordered" THEN OrderedPop(keys, c) ELSE UnorderedPop(c)
ContainerErase(type, keys, c, t) ==
    IF type = "ordered" THEN OrderedErase(keys, c, t) ELSE UnorderedErase(c, t)

RECURSIVE PushAll(_, _, _, _)
PushAll(type, keys, c, ts) ==
    IF ts = <<>> THEN [ub |-> FALSE, c |-> c]
    ELSE LET r == ContainerPush(type, keys, c, Head(ts))
         IN IF r.ub THEN r ELSE PushAll(type, keys, r.c, Tail(ts))

\* ------------------------------------------------------------ merge cursor
\* BroadcastedStorageTeamPeekCursorBase::tryFillCursorContainer on the cursor
\* state m = [mapper, bufs, poss, container, empty, retired, currentVersion].
\* Yields the new container, empty set and current version, the returned
\* bool, and which failure (if any) stopped it.
\* A refill that keeps waiting for every drained leaf, retired or not.
allEmptyCursorStorageTeamIDs(emptyAll, retiredAndAllConsumed) == emptyAll

\* A refill that does not wait for the leaves without data.
noEmptyCursorStorageTeamIDs(emptyAll, retiredAndAllConsumed) == {}

notRetiredEmptyCursorStorageTeamIDs(emptyAll, retiredAndAllConsumed) ==
    emptyAll \ retiredAndAllConsumed

tryFillCursorContainer(type, m) ==
    LET ready == {t \in m.mapper : LeafReady(m.bufs, m.poss, t)}
        keys == LeafKeys(m.bufs, m.poss)
        emptyAll == m.empty \cup (m.mapper \ ready)
        readyVersions == {keys[t][1] : t \in ready}
        first == IF ready = {} THEN invalidVersion
                 ELSE keys[CHOOSE t \in ready : \A u \in ready : t <= u][1]
        retiredAndAllConsumed == emptyAll \cap m.retired
        notRetiredEmpty == notRetiredEmptyCursorStorageTeamIDs(emptyAll, retiredAndAllConsumed)
        toPush == SetToSortedSeq({t \in m.mapper : t \notin notRetiredEmpty
                                                   /\ t \notin retiredAndAllConsumed})
        pushed == PushAll(type, keys, m.container, toPush)
        unchanged == [ok |-> FALSE, failure |-> "none", container |-> m.container,
                      empty |-> m.empty, currentVersion |-> m.currentVersion]
    IN IF m.mapper = {} \/ m.container # <<>>
       THEN [unchanged EXCEPT !.failure = "assert"]
       ELSE IF Cardinality(readyVersions) > 1
       THEN [unchanged EXCEPT !.failure = "assert", !.empty = emptyAll, !.currentVersion = first]
       ELSE IF notRetiredEmpty # {}
       THEN [unchanged EXCEPT !.empty = notRetiredEmpty,
                              !.currentVersion = IF Cardinality(m.mapper) = 1
                                                 THEN m.currentVersion ELSE first]
       ELSE IF first = invalidVersion
       THEN [unchanged EXCEPT !.empty = notRetiredEmpty, !.currentVersion = first]
       ELSE IF pushed.ub
       THEN [unchanged EXCEPT !.failure = "undefined", !.empty = notRetiredEmpty,
                              !.currentVersion = first]
       ELSE [ok |-> TRUE, failure |-> "none", container |-> pushed.c,
             empty |-> notRetiredEmpty, currentVersion |-> first]

\* The merge cursor state the operations below work on.
M == [mapper |-> mapper, bufs |-> deserializer, poss |-> wrappedDeserializerIter,
      container |-> pCursorContainer, empty |-> emptyCursorStorageTeamIDs,
      retired |-> retiredCursorStorageTeamIDs, currentVersion |-> currentVersion]

\* What a refill yields when the container is not empty and none is tried.
NoFill(m) ==
    [ok |-> TRUE, failure |-> "none", container |-> m.container, empty |-> m.empty,
     currentVersion |-> m.currentVersion]

\* BroadcastedStorageTeamPeekCursorBase::hasRemainingImpl, after fill, the
\* outcome of its tryFillCursorContainer call (if the container was empty):
\* the snapshot is taken if remoteMoreAvailable asked for one.
\* A has_remaining that takes the snapshot at every call.
hasRemainingImplAlwaysSnapshots(fill, snap) ==
    [ok |-> fill.ok, failure |-> fill.failure, container |-> fill.container,
     empty |-> fill.empty, currentVersion |-> fill.currentVersion,
     snapshot |-> IF fill.failure = "none"
                  THEN [needSnapshot |-> FALSE, version |-> fill.currentVersion,
                        pCursorContainer |-> fill.container]
                  ELSE snap]

hasRemainingImpl(fill, snap) ==
    [ok |-> fill.ok, failure |-> fill.failure, container |-> fill.container,
     empty |-> fill.empty, currentVersion |-> fill.currentVersion,
     snapshot |-> IF snap.needSnapshot /\ fill.failure = "none"
                  THEN [needSnapshot |-> FALSE, version |-> fill.currentVersion,
                        pCursorContainer |-> fill.container]
                  ELSE snap]

\* The leaf iterator moved forward to the first VSM at or after `version`
\* (the loop at the end of resetImpl).
\* A reset that leaves the leaves where the first iteration left them.
SkipBelowNone(buf, pos, version) == pos

RECURSIVE SkipBelow(_, _, _)
SkipBelow(buf, pos, version) ==
    IF pos <= Len(buf) /\ buf[pos][1] < version THEN SkipBelow(buf, pos + 1, version) ELSE pos

\* BroadcastedStorageTeamPeekCursorBase::resetImpl
\* A reset that restores the snapshot whatever its version is.
resetImplAlwaysRestores(m, snap) ==
    [container |-> snap.pCursorContainer, empty |-> {}, currentVersion |-> snap.version,
     poss |-> [t \in Teams |-> IF t \in m.mapper /\ t \notin m.retired
                               THEN SkipBelow(m.bufs[t], 1, snap.version)
                               ELSE m.poss[t]]]

resetImpl(m, snap) ==
    IF snap.version = invalidVersion
    THEN [container |-> m.container, empty |-> m.empty, currentVersion |-> m.currentVersion,
          poss |-> m.poss]
    ELSE [container |-> snap.pCursorContainer, empty |-> {}, currentVersion |-> snap.version,
          poss |-> [t \in Teams |-> IF t \in m.mapper /\ t \notin m.retired
                                    THEN SkipBelow(m.bufs[t], 1, snap.version)
                                    ELSE m.poss[t]]]

\* BroadcastedStorageTeamPeekCursor_Ordered::nextImpl and
\* BroadcastedStorageTeamPeekCursor_Unordered::nextImpl, after get() on the
\* front leaf. Yields the VSM get() returned, the new container, empty set,
\* current version and leaf positions, and the failure that stopped it.
\* The container after the unordered nextImpl advanced the front leaf.
\* A round-robin step: the consumed leaf goes to the back of the queue.
UnorderedAfterNextRotate(c, again) == IF again THEN Tail(c) \o <<Head(c)>> ELSE UnorderedPop(c).c

UnorderedAfterNext(c, again) == IF again THEN c ELSE UnorderedPop(c).c

nextImpl(type, m) ==
    LET fill == IF m.container = <<>> THEN tryFillCursorContainer(type, m) ELSE NoFill(m)
        stopped(f) == [failure |-> f, container |-> fill.container, empty |-> fill.empty,
                       currentVersion |-> fill.currentVersion, poss |-> m.poss]
    IN IF fill.failure # "none" THEN stopped(fill.failure)
       ELSE IF ~fill.ok THEN stopped("assert")
       ELSE LET front == fill.container[1]
                keys == LeafKeys(m.bufs, m.poss)
                poss1 == [m.poss EXCEPT ![front] = @ + 1]
                keys1 == LeafKeys(m.bufs, poss1)
                again == LeafReady(m.bufs, poss1, front) /\ keys1[front][1] = fill.currentVersion
            IN IF ~LeafReady(m.bufs, m.poss, front) THEN stopped("undefined")
               ELSE IF type = "ordered"
               THEN LET popped == OrderedPop(keys, fill.container)
                        pushed == IF again THEN OrderedPush(keys1, popped.c, front) ELSE popped
                    IN IF popped.ub \/ pushed.ub THEN stopped("undefined")
                       ELSE [failure |-> "none", container |-> pushed.c, empty |-> fill.empty,
                             currentVersion |-> fill.currentVersion, poss |-> poss1]
               ELSE [failure |-> "none",
                     container |-> UnorderedAfterNext(fill.container, again),
                     empty |-> fill.empty, currentVersion |-> fill.currentVersion, poss |-> poss1]

\* ------------------------------------------------------------ the caller
\* Which operation the caller may issue next: any, for an arbitrary caller;
\* the one getAllMessageFromCursor issues at its position, for the loop; the
\* one advanceTo issues at its position, or a new advanceTo, for a caller that
\* positions the cursor with advanceTo.
MayCall(op) ==
    /\ failure = "none"
    /\ IF driver \notin {"loop", "advance"} THEN pc = "idle"
       ELSE CASE op = "remoteMoreAvailable" -> pc \in {"call", "advCall"}
              [] op = "hasRemaining" -> pc \in {"iter", "iterDup", "advOuter", "advInner"}
              [] op = "next" -> pc \in {"body", "bodyDup", "advNextOuter", "advNextInner"}
              [] op = "reset" -> pc = "reset"
              [] op = "advanceTo" -> pc = "idle"
              [] OTHER -> FALSE

AfterHasRemaining(ok) ==
    IF driver # "loop" THEN "idle"
    ELSE IF pc = "iter" THEN (IF ok THEN "body" ELSE "reset")
    ELSE (IF ok THEN "bodyDup" ELSE "call")

AfterNext == IF driver # "loop" THEN "idle" ELSE IF pc = "body" THEN "iter" ELSE "iterDup"

AfterRemoteMoreAvailable(res) ==
    IF driver # "loop" THEN "idle"
    ELSE IF res = "true" THEN "iter" ELSE IF res = "false" THEN "call" ELSE "done"

NoGet == [vsm |-> <<>>, old |-> FALSE, again |-> FALSE]

\* The caller's records of one get(): vsm is <<team, version, subsequence>>.
Record(vsm) ==
    /\ messages' = IF driver = "loop" /\ pc = "body" THEN Append(messages, vsm) ELSE messages
    /\ batch' = IF driver = "loop" /\ pc = "body" THEN Append(batch, vsm) ELSE batch
    /\ batchDup' = IF driver = "loop" /\ pc = "bodyDup" THEN Append(batchDup, vsm) ELSE batchDup
    /\ IF driver \in {"free", "cancel", "advance", "members"} THEN UNCHANGED freeGhost
       ELSE /\ lastGet' = [vsm |-> vsm, old |-> vsm \in emittedBefore, again |-> vsm \in emittedPass]
            /\ emittedSince' = emittedSince \cup {vsm}
            /\ emittedPass' = emittedPass \cup {vsm}
            /\ UNCHANGED emittedBefore

\* The caller's records when remoteMoreAvailable() returns: what was got
\* before a call that returned true was delivered before the latest refill.
Refilled(res) ==
    IF res = "true"
    THEN /\ emittedBefore' = emittedBefore \cup emittedSince
         /\ emittedSince' = {}
         /\ emittedPass' = {}
    ELSE UNCHANGED <<emittedBefore, emittedSince, emittedPass>>

\* ------------------------------------------------------------- advanceTo
\* The advanceTo actor when none has run yet.
NoTarget == [active |-> FALSE, version |-> 0, subsequence |-> 0, first |-> TRUE, from |-> NoKey,
             moved |-> FALSE, called |-> FALSE, last |-> NoKey, outcome |-> "none"]

\* The condition of the inner while of advanceTo on the current VSM.
belowTarget(key, version, subsequence) == key[1] = version /\ key[2] < subsequence

\* The test after the inner while of advanceTo.
\* A test that stops only past the target subsequence.
reachedTargetPast(key, version, subsequence) == key[1] > version \/ key[2] > subsequence

reachedTarget(key, version, subsequence) == key[1] > version \/ key[2] >= subsequence

\* advanceTo after `iter != cursor->end()` of its outer while (at = "advOuter")
\* or of its inner while (at = "advInner") has been evaluated to ok, with key
\* the VSM *iter yields (NoKey if there is none): where the actor goes next.
\* "idle": it returns; "undefined": it dereferences an iterator that has no
\* VSM; "advCall": it calls remoteMoreAvailable; "advNextOuter" and
\* "advNextInner": ++iter of the outer and of the inner while.
advanceTo(at, ok, key, version, subsequence) ==
    IF at = "advOuter"
    THEN IF ~ok THEN "advCall"
         ELSE IF key = NoKey THEN "undefined"
         ELSE IF key[1] > version THEN "idle"
         ELSE IF key[1] = version
         THEN IF belowTarget(key, version, subsequence) THEN "advNextInner"
              ELSE IF reachedTarget(key, version, subsequence) THEN "idle"
              ELSE "advNextOuter"
         ELSE "advNextOuter"
    ELSE IF ~ok \/ key = NoKey THEN "undefined"
         ELSE IF belowTarget(key, version, subsequence) THEN "advNextInner"
         ELSE IF reachedTarget(key, version, subsequence) THEN "idle"
         ELSE "advNextOuter"

\* advanceTo after its remoteMoreAvailable call returned res.
\* An advanceTo that keeps iterating after a call that returned false.
advanceToAfterRemoteRetry(res) == IF res \in {"true", "false"} THEN "advOuter" ELSE "idle"

advanceToAfterRemote(res) == IF res = "true" THEN "advOuter" ELSE "idle"

\* The advanceTo actor after its remoteMoreAvailable call ended with res.
AdvanceAfterCall(res) ==
    IF ~advance.active THEN advance
    ELSE IF res = "true" THEN advance
    ELSE [advance EXCEPT !.active = FALSE,
                         !.outcome = IF res = "false" THEN "notReached" ELSE res]

\* The cursor, as a caller that cancels a call compares it.
Cursor ==
    [mapper |-> mapper, emptyCursorStorageTeamIDs |-> emptyCursorStorageTeamIDs,
     retiredCursorStorageTeamIDs |-> retiredCursorStorageTeamIDs,
     currentVersion |-> currentVersion,
     remoteMoreAvailableSnapshot |-> remoteMoreAvailableSnapshot,
     pCursorContainer |-> pCursorContainer, lastVersion |-> lastVersion,
     leafMaxKnownVersion |-> leafMaxKnownVersion,
     leafMinKnownCommittedVersion |-> leafMinKnownCommittedVersion,
     deserializer |-> deserializer, wrappedDeserializerIter |-> wrappedDeserializerIter]

\* hasRemaining() on the merge cursor.
HasRemaining ==
    /\ MayCall("hasRemaining")
    /\ cursorType # "leaf"
    /\ \E fill \in {IF pCursorContainer = <<>> THEN tryFillCursorContainer(cursorType, M)
                    ELSE NoFill(M)} :
       \E r \in {hasRemainingImpl(fill, remoteMoreAvailableSnapshot)} :
          /\ pCursorContainer' = r.container
          /\ emptyCursorStorageTeamIDs' = r.empty
          /\ currentVersion' = r.currentVersion
          /\ remoteMoreAvailableSnapshot' = r.snapshot
          /\ \E at \in {IF advance.active /\ r.failure = "none"
                          THEN advanceTo(pc, r.ok,
                                         IF r.ok
                                         THEN LeafKeys(deserializer,
                                                       wrappedDeserializerIter)[r.container[1]]
                                         ELSE NoKey,
                                         advance.version, advance.subsequence)
                          ELSE "none"} :
                /\ failure' = IF at = "undefined" THEN "undefined" ELSE r.failure
                /\ result' = IF r.failure # "none" \/ at = "undefined" THEN "failed"
                              ELSE IF r.ok THEN "true" ELSE "false"
                /\ pc' = IF r.failure # "none" \/ at = "undefined" THEN pc
                          ELSE IF advance.active THEN at
                          ELSE AfterHasRemaining(r.ok)
                /\ advance' = IF at = "idle"
                               THEN [advance EXCEPT !.active = FALSE, !.outcome = "reached"]
                               ELSE advance
    /\ UNCHANGED <<envVars, serverPeekCursor, oracleVars, lastReply, leafVars, mapper, retiredCursorStorageTeamIDs, maxKnownVersion,
                   minKnownCommittedVersion, peek, loopGhost, freeGhost, preCall>>

\* get() followed by next() on the merge cursor: one step of the iterator.
GetNext ==
    /\ MayCall("next")
    /\ cursorType # "leaf"
    /\ pCursorContainer # <<>>
    /\ LET r == nextImpl(cursorType, M)
           front == pCursorContainer[1]
       IN /\ pCursorContainer' = r.container
          /\ emptyCursorStorageTeamIDs' = r.empty
          /\ currentVersion' = r.currentVersion
          /\ wrappedDeserializerIter' = r.poss
          /\ failure' = r.failure
          /\ result' = IF r.failure # "none" THEN "failed" ELSE "none"
          /\ pc' = IF r.failure # "none" THEN pc
                    ELSE IF advance.active
                    THEN (IF pc = "advNextOuter" THEN "advOuter" ELSE "advInner")
                    ELSE AfterNext
          /\ advance' = IF advance.active /\ r.failure = "none"
                         THEN [advance EXCEPT !.moved = TRUE,
                                              !.last = deserializer[front][wrappedDeserializerIter[front]]]
                         ELSE advance
          /\ IF LeafReady(deserializer, wrappedDeserializerIter, front)
             THEN Record(<<front>> \o deserializer[front][wrappedDeserializerIter[front]])
             ELSE UNCHANGED <<loopGhost, freeGhost>>
    /\ UNCHANGED <<envVars, serverPeekCursor, oracleVars, lastReply, lastVersion, leafMaxKnownVersion, leafMinKnownCommittedVersion,
                   deserializer, mapper, retiredCursorStorageTeamIDs,
                   remoteMoreAvailableSnapshot, maxKnownVersion, minKnownCommittedVersion, peek,
                   preCall>>

\* reset() on the merge cursor.
Reset ==
    /\ MayCall("reset")
    /\ cursorType # "leaf"
    /\ LET r == resetImpl(M, remoteMoreAvailableSnapshot)
       IN /\ pCursorContainer' = r.container
          /\ emptyCursorStorageTeamIDs' = r.empty
          /\ currentVersion' = r.currentVersion
          /\ wrappedDeserializerIter' = r.poss
    /\ pc' = IF driver # "loop" THEN "idle" ELSE "iterDup"
    /\ result' = "none"
    /\ emittedPass' = {}
    /\ lastGet' = NoGet
    /\ UNCHANGED <<envVars, serverPeekCursor, oracleVars, lastReply, lastVersion, leafMaxKnownVersion, leafMinKnownCommittedVersion,
                   deserializer, mapper, retiredCursorStorageTeamIDs,
                   remoteMoreAvailableSnapshot, maxKnownVersion, minKnownCommittedVersion, peek,
                   failure, loopGhost, emittedBefore, emittedSince, advance, preCall>>

\* ------------------------------------------------- remoteMoreAvailable
\* request.beginVersion of the TLogPeekRequest a leaf sends.
\* A request that begins one past the recorded end of the last reply.
requestBeginVersionNext(last) == last + 1

requestBeginVersion(last) == last

\* The peek task of a leaf: st tells how far it is, i counts its tries without
\* data, and begin is request.beginVersion of its latest TLogPeekRequest.
Idle == [st |-> "idle", i |-> 0, begin |-> invalidVersion]

RECURSIVE EraseAll(_, _, _, _)
EraseAll(type, keys, c, ts) ==
    IF ts = <<>> THEN [ub |-> FALSE, c |-> c]
    ELSE LET r == ContainerErase(type, keys, c, Head(ts))
         IN IF r.ub THEN r ELSE EraseAll(type, keys, r.c, Tail(ts))

\* The entry of BroadcastedStorageTeamPeekCursor::peekRemote: with no leaf to
\* refill it throws end_of_stream, otherwise it peeks.
\* A peekRemote that peeks whatever the empty set holds.
peekRemoteEntryPeeks(empty) == "peek"

peekRemoteEntry(empty) == IF empty = {} THEN "end_of_stream" ELSE "peek"

\* BroadcastedStorageTeamPeekCursorBase::remoteMoreAvailableImpl up to the
\* first wait of peekRemote: the snapshot is marked pending, the retired
\* leaves are removed, and either end_of_stream is thrown or one
\* peekSingleCursor task per empty leaf is started.
RemoteMoreAvailable ==
    /\ MayCall("remoteMoreAvailable")
    /\ cursorType # "leaf"
    /\ LET erased == EraseAll(cursorType, LeafKeys(deserializer, wrappedDeserializerIter),
                              pCursorContainer, SetToSortedSeq(retiredCursorStorageTeamIDs))
           empty1 == emptyCursorStorageTeamIDs \ retiredCursorStorageTeamIDs
           mapper1 == mapper \ retiredCursorStorageTeamIDs
           fail == IF ~(retiredCursorStorageTeamIDs \subseteq mapper) THEN "assert"
                   ELSE IF erased.ub THEN "undefined"
                   ELSE IF ~(empty1 \subseteq mapper1) THEN "assert"
                   ELSE "none"
       IN /\ remoteMoreAvailableSnapshot' = [remoteMoreAvailableSnapshot EXCEPT !.needSnapshot = TRUE]
          /\ mapper' = mapper1
          /\ pCursorContainer' = erased.c
          /\ emptyCursorStorageTeamIDs' = empty1
          /\ retiredCursorStorageTeamIDs' = {}
          /\ deserializer' = [t \in Teams |-> IF t \in mapper1 THEN deserializer[t] ELSE <<>>]
          /\ wrappedDeserializerIter' = [t \in Teams |-> IF t \in mapper1
                                                         THEN wrappedDeserializerIter[t] ELSE 1]
          /\ failure' = fail
          /\ IF fail # "none"
             THEN /\ result' = "failed"
                  /\ pc' = pc
                  /\ peek' = peek
             ELSE IF peekRemoteEntry(empty1) = "end_of_stream"
             THEN /\ result' = "end_of_stream"
                  /\ pc' = AfterRemoteMoreAvailable("end_of_stream")
                  /\ peek' = peek
             ELSE /\ result' = "none"
                  /\ pc' = "rma"
                  /\ peek' = [t \in Teams |-> IF t \in empty1
                                              THEN [st |-> "pending", i |-> 0,
                                                    begin |-> requestBeginVersion(lastVersion[t])]
                                              ELSE Idle]
          /\ advance' = IF ~advance.active \/ fail # "none" THEN advance
                         ELSE IF peekRemoteEntry(empty1) = "end_of_stream"
                         THEN [advance EXCEPT !.active = FALSE, !.called = TRUE,
                                              !.outcome = "end_of_stream"]
                         ELSE [advance EXCEPT !.called = TRUE]
          /\ preCall' = IF driver = "cancel"
                         THEN [made |-> TRUE, cursor |-> Cursor, pCursorContainer |-> erased.c]
                         ELSE preCall
    /\ lastGet' = NoGet
    /\ batch' = <<>>
    /\ batchDup' = <<>>
    /\ UNCHANGED <<emittedBefore, emittedSince, emittedPass>>
    /\ UNCHANGED <<envVars, serverPeekCursor, oracleVars, lastReply, lastVersion, leafMaxKnownVersion, leafMinKnownCommittedVersion,
                   currentVersion, maxKnownVersion, minKnownCommittedVersion, messages>>

\* peekSingleCursor after its leaf's remoteMoreAvailable returned false (a
\* reply without messages): the try is counted; after the last try the task
\* reports a timeout, otherwise it waits for the backoff delay. A leaf used on
\* its own has no retry loop: its remoteMoreAvailable has returned false.
\* A task that makes one try more than MERGE_CURSOR_RETRY_TIMES.
AfterEmptyReplyOneMore(p) ==
    IF cursorType = "leaf" \/ p.i + 1 = RetryTimes + 1
    THEN [st |-> "timeout", i |-> p.i + 1, begin |-> p.begin]
    ELSE [st |-> "backoff", i |-> p.i + 1, begin |-> p.begin]

AfterEmptyReply(p) ==
    IF cursorType = "leaf" \/ p.i + 1 = RetryTimes
    THEN [st |-> "timeout", i |-> p.i + 1, begin |-> p.begin]
    ELSE [st |-> "backoff", i |-> p.i + 1, begin |-> p.begin]

\* No reply with messages has been received.
NoReply == [endVersion |-> invalidVersion, maxKnownVersion |-> invalidVersion,
            minKnownCommittedVersion |-> invalidVersion]

\* *pLastVersion after a reply with messages.
\* A leaf that records the last version the reply holds.
lastVersionAfterReplyIncluded(last, endVersion) == endVersion - 1

lastVersionAfterReply(last, endVersion) == endVersion

\* details::StorageTeamPeekCursor::peekRemote, reply with data: n versions
\* starting at the request's beginVersion.
PeekReplyData(t, n, view) ==
    /\ pc = "rma"
    /\ peek[t].st = "pending"
    /\ n <= Cardinality(VersionsFrom(tlog[t], peek[t].begin))
    /\ LET reply == PeekReply(tlog[t], peek[t].begin, n)
       IN /\ deserializer' = [deserializer EXCEPT ![t] = reply.data]
          /\ wrappedDeserializerIter' = [wrappedDeserializerIter EXCEPT ![t] = 1]
          /\ leafMaxKnownVersion' = [leafMaxKnownVersion EXCEPT ![t] = view[1]]
          /\ leafMinKnownCommittedVersion' = [leafMinKnownCommittedVersion EXCEPT ![t] = view[2]]
          /\ lastVersion' = [lastVersion EXCEPT ![t] = lastVersionAfterReply(@, reply.endVersion)]
          /\ lastReply' = [lastReply EXCEPT ![t] = [endVersion |-> reply.endVersion,
                                                    maxKnownVersion |-> view[1],
                                                    minKnownCommittedVersion |-> view[2]]]
    /\ peek' = [peek EXCEPT ![t].st = "data"]
    /\ UNCHANGED <<envVars, serverPeekCursor, oracleVars, mergeVars, pc, result, failure, loopGhost, freeGhost, advance,
                   preCall>>

\* peekRemote, reply without any record: the deserializer is reset to the
\* (empty) reply and nothing else changes; peekSingleCursor counts the try.
PeekReplyEmpty(t) ==
    /\ pc = "rma"
    /\ peek[t].st = "pending"
    /\ deserializer' = [deserializer EXCEPT ![t] = <<>>]
    /\ wrappedDeserializerIter' = [wrappedDeserializerIter EXCEPT ![t] = 1]
    /\ peek' = [peek EXCEPT ![t] = AfterEmptyReply(@)]
    /\ UNCHANGED <<envVars, serverPeekCursor, oracleVars, lastReply, mergeVars, lastVersion, leafMaxKnownVersion,
                   leafMinKnownCommittedVersion, pc, result, failure, loopGhost, freeGhost,
                   advance, preCall>>

\* peekSingleCursor, the backoff delay has elapsed: the loop calls the leaf's
\* remoteMoreAvailable again, which sends a new request.
PeekBackoff(t) ==
    /\ pc = "rma"
    /\ peek[t].st = "backoff"
    /\ peek' = [peek EXCEPT ![t] = [st |-> "pending", i |-> @.i,
                                    begin |-> requestBeginVersion(lastVersion[t])]]
    /\ UNCHANGED <<envVars, serverPeekCursor, oracleVars, lastReply, mergeVars, leafVars, pc, result, failure,
                   loopGhost, freeGhost, advance, preCall>>

\* peekRemote, the remote's epoch has ended and nothing is left to return:
\* getReply throws end_of_stream and the leaf is left as it was.
PeekReplyEndOfStream(t) ==
    /\ pc = "rma"
    /\ peek[t].st = "pending"
    /\ VersionsFrom(tlog[t], peek[t].begin) = {}
    /\ peek' = [peek EXCEPT ![t].st = "eos"]
    /\ UNCHANGED <<envVars, serverPeekCursor, oracleVars, lastReply, mergeVars, leafVars, pc, result, failure, loopGhost, freeGhost,
                   advance, preCall>>

\* What peekRemote returns for the leaves it peeked, those that ended and
\* those that timed out.
\* A peekRemote that raises end_of_stream itself once every leaf it peeked
\* has ended.
peekRemoteResultThrows(peeked, ended, timedOut) ==
    IF timedOut # {} THEN "false" ELSE IF ended = peeked THEN "end_of_stream" ELSE "true"

peekRemoteResult(peeked, ended, timedOut) == IF timedOut # {} THEN "false" ELSE "true"

\* The empty set after peekRemote applied the results.
\* A peekRemote that takes every peeked leaf out of the empty set.
emptyAfterPeekAll(empty, peeked, timedOut) == empty \ peeked

emptyAfterPeek(empty, peeked, timedOut) == empty \ (peeked \ timedOut)

\* The retired set after peekRemote applied the results.
\* A peekRemote that drops an ended leaf at once instead of recording it.
retiredAfterPeekForgets(retired, ended) == retired \ ended

retiredAfterPeek(retired, ended) == retired \cup ended

\* BroadcastedStorageTeamPeekCursor::peekRemote after getAll: the results are
\* applied to the empty and retired sets and the watermarks.
RemoteMoreAvailableReturn ==
    /\ pc = "rma"
    /\ cursorType # "leaf"
    /\ \A t \in Teams : peek[t].st \notin {"pending", "backoff"}
    /\ LET peeked == {t \in Teams : peek[t].st # "idle"}
           timedOut == {t \in peeked : peek[t].st = "timeout"}
           ended == {t \in peeked : peek[t].st = "eos"}
           cursorsReady == timedOut = {}
           Max(a, b) == IF a >= b THEN a ELSE b
           RECURSIVE MaxOver(_, _, _)
           MaxOver(f, acc, S) ==
               IF S = {} THEN acc
               ELSE LET t == CHOOSE x \in S : TRUE IN MaxOver(f, Max(acc, f[t]), S \ {t})
       IN /\ retiredCursorStorageTeamIDs' = retiredAfterPeek(retiredCursorStorageTeamIDs, ended)
          /\ emptyCursorStorageTeamIDs' = emptyAfterPeek(emptyCursorStorageTeamIDs, peeked, timedOut)
          /\ maxKnownVersion' = IF cursorsReady
                                THEN MaxOver(leafMaxKnownVersion, maxKnownVersion, peeked)
                                ELSE maxKnownVersion
          /\ minKnownCommittedVersion' =
                 IF cursorsReady
                 THEN MaxOver(leafMinKnownCommittedVersion, minKnownCommittedVersion, peeked)
                 ELSE minKnownCommittedVersion
          /\ result' = peekRemoteResult(peeked, ended, timedOut)
          /\ pc' = IF advance.active
                    THEN advanceToAfterRemote(peekRemoteResult(peeked, ended, timedOut))
                    ELSE AfterRemoteMoreAvailable(peekRemoteResult(peeked, ended, timedOut))
          /\ advance' = AdvanceAfterCall(peekRemoteResult(peeked, ended, timedOut))
          /\ Refilled(peekRemoteResult(peeked, ended, timedOut))
    /\ peek' = [t \in Teams |-> Idle]
    /\ UNCHANGED <<envVars, serverPeekCursor, oracleVars, lastReply, leafVars, mapper, pCursorContainer, currentVersion,
                   remoteMoreAvailableSnapshot, failure, loopGhost, lastGet, preCall>>

\* ------------------------------------------- a leaf cursor used on its own
LeafTeam == CHOOSE t \in Teams : \A u \in Teams : t <= u

\* StorageTeamPeekCursor::remoteMoreAvailableImpl: one peekRemote.
LeafRemoteMoreAvailable ==
    /\ MayCall("remoteMoreAvailable")
    /\ cursorType = "leaf"
    /\ peek' = [peek EXCEPT ![LeafTeam] = [st |-> "pending", i |-> 0,
                                          begin |-> requestBeginVersion(lastVersion[LeafTeam])]]
    /\ pc' = "rma"
    /\ result' = "none"
    /\ lastGet' = NoGet
    /\ batch' = <<>>
    /\ batchDup' = <<>>
    /\ UNCHANGED <<emittedBefore, emittedSince, emittedPass>>
    /\ UNCHANGED <<envVars, serverPeekCursor, oracleVars, lastReply, leafVars, mergeVars, failure, messages, advance, preCall>>

LeafRemoteMoreAvailableReturn ==
    /\ pc = "rma"
    /\ cursorType = "leaf"
    /\ peek[LeafTeam].st \in {"data", "timeout", "eos"}
    /\ LET res == IF peek[LeafTeam].st = "data" THEN "true"
                  ELSE IF peek[LeafTeam].st = "timeout" THEN "false" ELSE "end_of_stream"
       IN /\ result' = res
          /\ pc' = AfterRemoteMoreAvailable(res)
          /\ Refilled(res)
    /\ peek' = [t \in Teams |-> Idle]
    /\ UNCHANGED <<envVars, serverPeekCursor, oracleVars, lastReply, leafVars, mergeVars, failure, loopGhost, lastGet, advance, preCall>>

\* StorageTeamPeekCursor::hasRemainingImpl
LeafHasRemaining ==
    /\ MayCall("hasRemaining")
    /\ cursorType = "leaf"
    /\ LET buf == deserializer[LeafTeam]
           pos == hasRemainingImplLeaf(buf, wrappedDeserializerIter[LeafTeam], reportEmptyVersion)
       IN /\ wrappedDeserializerIter' = [wrappedDeserializerIter EXCEPT ![LeafTeam] = pos]
          /\ result' = IF pos <= Len(buf) THEN "true" ELSE "false"
          /\ pc' = AfterHasRemaining(pos <= Len(buf))
    /\ UNCHANGED <<envVars, serverPeekCursor, oracleVars, lastReply, mergeVars, lastVersion, leafMaxKnownVersion,
                   leafMinKnownCommittedVersion, deserializer, peek, failure, loopGhost,
                   freeGhost, advance, preCall>>

\* StorageTeamPeekCursor::getImpl followed by nextImpl
LeafGetNext ==
    /\ MayCall("next")
    /\ cursorType = "leaf"
    /\ LET buf == deserializer[LeafTeam]
           pos == wrappedDeserializerIter[LeafTeam]
       IN IF pos <= Len(buf)
          THEN /\ Record(<<LeafTeam>> \o buf[pos])
               /\ wrappedDeserializerIter' = [wrappedDeserializerIter EXCEPT ![LeafTeam] = pos + 1]
               /\ failure' = failure
               /\ result' = "none"
               /\ pc' = AfterNext
          ELSE /\ UNCHANGED <<loopGhost, freeGhost, wrappedDeserializerIter, pc>>
               /\ failure' = "undefined"
               /\ result' = "failed"
    /\ UNCHANGED <<envVars, serverPeekCursor, oracleVars, lastReply, mergeVars, lastVersion, leafMaxKnownVersion,
                   leafMinKnownCommittedVersion, deserializer, peek, advance, preCall>>

\* StorageTeamPeekCursor::resetImpl
LeafReset ==
    /\ MayCall("reset")
    /\ cursorType = "leaf"
    /\ wrappedDeserializerIter' = [wrappedDeserializerIter EXCEPT ![LeafTeam] = 1]
    /\ pc' = IF driver # "loop" THEN "idle" ELSE "iterDup"
    /\ result' = "none"
    /\ emittedPass' = {}
    /\ lastGet' = NoGet
    /\ UNCHANGED <<envVars, serverPeekCursor, oracleVars, lastReply, mergeVars, lastVersion, leafMaxKnownVersion,
                   leafMinKnownCommittedVersion, deserializer, peek, failure, loopGhost,
                   emittedBefore, emittedSince, advance, preCall>>

\* ------------------------------------------------------ failing peeks
\* The errors, other than end_of_stream, that the reply of a peek request can
\* carry.
TransportErrors == {"timed_out", "operation_obsolete", "connection_failed"}

\* The catch block of peekSingleCursor: end_of_stream is turned into a
\* result, every other error is thrown on.
\* A catch block that counts timed_out and operation_obsolete as a try
\* without data.
peekSingleCursorCatchRetries(e) ==
    IF e = "end_of_stream" THEN "return"
    ELSE IF e \in {"timed_out", "operation_obsolete"} THEN "retry"
    ELSE "throw"

peekSingleCursorCatch(e) == IF e = "end_of_stream" THEN "return" ELSE "throw"

\* details::StorageTeamPeekCursor::peekRemote, getReply throws e: the leaf is
\* left as it was. A leaf used on its own passes the error to its caller; in
\* a merge cursor peekSingleCursor catches it and, when it throws it on,
\* getAll and peekRemote fail with it and the other peeks are dropped.
PeekReplyError(t, e) ==
    /\ pc = "rma"
    /\ peek[t].st = "pending"
    /\ \E caught \in {IF cursorType = "leaf" THEN "throw" ELSE peekSingleCursorCatch(e)} :
          IF caught = "throw"
          THEN /\ result' = e
               /\ pc' = AfterRemoteMoreAvailable(e)
               /\ peek' = [u \in Teams |-> Idle]
               /\ advance' = AdvanceAfterCall(e)
          ELSE /\ peek' = [peek EXCEPT ![t] = IF caught = "retry" THEN AfterEmptyReply(@)
                                               ELSE [@ EXCEPT !.st = "eos"]]
               /\ UNCHANGED <<result, pc, advance>>
    /\ UNCHANGED <<envVars, serverPeekCursor, oracleVars, lastReply, mergeVars, leafVars, failure, loopGhost, freeGhost, preCall>>

\* ------------------------------------------------------- cancellation
\* The caller drops the future of a pending remoteMoreAvailable: the actors
\* of peekRemote, getAll, peekSingleCursor and of the leaves' peekRemote are
\* cancelled at their wait, and nothing they did is undone.
Cancel ==
    /\ driver = "cancel"
    /\ pc = "rma"
    /\ pc' = "idle"
    /\ result' = "cancelled"
    /\ peek' = [t \in Teams |-> Idle]
    /\ UNCHANGED <<envVars, serverPeekCursor, oracleVars, lastReply, mergeVars, leafVars, failure, loopGhost, freeGhost, advance, preCall>>

\* ------------------------------------------- addCursor and removeCursor
\* StorageTeamIDCursorMapper::addCursor on the merge cursor, called with a
\* newly constructed leaf of a team the cursor does not hold:
\* BroadcastedStorageTeamPeekCursorBase::addCursorImpl puts the team into the
\* empty set and the leaf into the mapper.
AddCursor(t) ==
    /\ MayCall("addCursor")
    /\ driver = "members"
    /\ cursorType # "leaf"
    /\ t \notin mapper
    /\ emptyCursorStorageTeamIDs' = emptyCursorStorageTeamIDs \cup {t}
    /\ mapper' = mapper \cup {t}
    /\ lastVersion' = [lastVersion EXCEPT ![t] = BeginVersion - 1]
    /\ leafMaxKnownVersion' = [leafMaxKnownVersion EXCEPT ![t] = invalidVersion]
    /\ leafMinKnownCommittedVersion' = [leafMinKnownCommittedVersion EXCEPT ![t] = invalidVersion]
    /\ deserializer' = [deserializer EXCEPT ![t] = <<>>]
    /\ wrappedDeserializerIter' = [wrappedDeserializerIter EXCEPT ![t] = 1]
    /\ lastReply' = [lastReply EXCEPT ![t] = NoReply]
    /\ result' = "added"
    /\ UNCHANGED <<envVars, serverPeekCursor, oracleVars, pCursorContainer, retiredCursorStorageTeamIDs,
                   currentVersion, remoteMoreAvailableSnapshot, maxKnownVersion,
                   minKnownCommittedVersion, peek, pc, failure, loopGhost, freeGhost, advance,
                   preCall>>

\* The mapper after StorageTeamIDCursorMapper::removeCursorImpl.
mapperAfterRemove(m, t) == m \ {t}

\* StorageTeamIDCursorMapper::removeCursor on the merge cursor, called with a
\* team the cursor holds: BroadcastedStorageTeamPeekCursorBase::removeCursorImpl
\* erases the leaf from the container and the team from the empty set, and
\* the mapper hands the leaf to the caller, who drops it.
RemoveCursor(t) ==
    /\ MayCall("removeCursor")
    /\ driver = "members"
    /\ cursorType # "leaf"
    /\ t \in mapper
    /\ LET erased == ContainerErase(cursorType, LeafKeys(deserializer, wrappedDeserializerIter),
                                    pCursorContainer, t)
       IN /\ pCursorContainer' = erased.c
          /\ failure' = IF erased.ub THEN "undefined" ELSE "none"
          /\ result' = IF erased.ub THEN "failed" ELSE "removed"
    /\ emptyCursorStorageTeamIDs' = emptyCursorStorageTeamIDs \ {t}
    /\ mapper' = mapperAfterRemove(mapper, t)
    /\ deserializer' = [deserializer EXCEPT ![t] = <<>>]
    /\ wrappedDeserializerIter' = [wrappedDeserializerIter EXCEPT ![t] = 1]
    /\ UNCHANGED <<envVars, serverPeekCursor, oracleVars, lastReply, lastVersion, leafMaxKnownVersion,
                   leafMinKnownCommittedVersion, retiredCursorStorageTeamIDs, currentVersion,
                   remoteMoreAvailableSnapshot, maxKnownVersion, minKnownCommittedVersion, peek,
                   pc, loopGhost, freeGhost, advance, preCall>>

\* ------------------------------------------------------ advanceTo, entry
\* The subsequences a target may name: those the TLogs hand out, 0 of an
\* EmptyVersion record, and one past the last.
TargetSubsequences == 0..(NumTeams * MaxItems + 1)

\* advanceTo(cursor, version, subsequence) up to its first `iter !=
\* cursor->end()`: the actor takes cursor->begin().
AdvanceTo(version, subsequence) ==
    /\ MayCall("advanceTo")
    /\ driver = "advance"
    /\ cursorType # "leaf"
    /\ advance' = [active |-> TRUE, version |-> version, subsequence |-> subsequence,
                   first |-> (advance = NoTarget),
                   from |-> IF pCursorContainer = <<>> THEN NoKey
                            ELSE LeafKeys(deserializer, wrappedDeserializerIter)[pCursorContainer[1]],
                   moved |-> FALSE, called |-> FALSE, last |-> NoKey, outcome |-> "none"]
    /\ pc' = "advOuter"
    /\ result' = "none"
    /\ UNCHANGED <<envVars, serverPeekCursor, oracleVars, lastReply, mergeVars, leafVars, peek, failure, loopGhost, freeGhost, preCall>>

\* ------------------------------------- the expected mutable-team messages
\* The storage team that carries the team membership mutations.
privateMutationsStorageTeamID == 0

\* commitRecord.messages[commitVersion][storageTeamID]: <<subsequence,
\* message>> pairs. The private mutations team holds at most one message per
\* version, a membership mutation (subsequence 1) whose param2 is the new set
\* of storage teams; the other teams hold messages with later subsequences.
TeamMessages(t, n) == [k \in 1..n |-> <<1 + t + (k - 1) * NumTeams, "mutation">>]

\* changes[v] tells whether version v carries a membership mutation, teams[v]
\* is its param2.
CommitRecords ==
    {[v \in 1..NumVersions |->
         [t \in {privateMutationsStorageTeamID} \cup Teams |->
             IF t = privateMutationsStorageTeamID
             THEN (IF changes[v] THEN << <<1, teams[v]>> >> ELSE <<>>)
             ELSE TeamMessages(t, shape[t])]] :
        changes \in [1..NumVersions -> BOOLEAN],
        teams \in [1..NumVersions -> SUBSET Teams],
        shape \in [Teams -> 0..MaxItems]}

\* The orders in which the storage teams of one commit version are iterated.
TeamOrders ==
    {o \in [1..(NumTeams + 1) -> {privateMutationsStorageTeamID} \cup Teams] :
        \A i, j \in 1..(NumTeams + 1) : i # j => o[i] # o[j]}

\* std::sort of VersionSubsequenceMessages <<team, version, subsequence>>.
RECURSIVE SortMessages(_)
SortMessages(S) ==
    IF S = {} THEN <<>>
    ELSE LET m == CHOOSE x \in S : \A y \in S : x = y \/ x[2] < y[2] \/ (x[2] = y[2] /\ x[3] <= y[3])
         IN <<m>> \o SortMessages(S \ {m})

\* StorageServerStorageTeams::contains
contains(active, storageTeamID) == storageTeamID \in active

\* One round of the inner loop of getMessagesFromMutableTeams: the messages
\* of one storage team at one commit version.
GetMessagesFromMutableTeams ==
    /\ driver = "oracle"
    /\ oracleAt.index \in 1..(NumTeams + 1)
    /\ LET commitVersion == oracleAt.commitVersion
           storageTeamID == commitRecord.order[oracleAt.index]
           subsequenceMessages == commitRecord.messages[commitVersion][storageTeamID]
           emitted(pairs) == [i \in 1..Len(pairs) |-> <<storageTeamID, commitVersion, pairs[i][1]>>]
       IN /\ IF Len(subsequenceMessages) = 0
             THEN UNCHANGED <<messagesFromCommitRecord, activeStorageServerTeams>>
             ELSE IF storageTeamID = privateMutationsStorageTeamID
             THEN /\ messagesFromCommitRecord' =
                         messagesFromCommitRecord \o emitted(<<subsequenceMessages[1]>>)
                  /\ activeStorageServerTeams' = subsequenceMessages[1][2]
             ELSE IF ~contains(activeStorageServerTeams, storageTeamID)
             THEN UNCHANGED <<messagesFromCommitRecord, activeStorageServerTeams>>
             ELSE /\ messagesFromCommitRecord' =
                         messagesFromCommitRecord \o emitted(subsequenceMessages)
                  /\ UNCHANGED activeStorageServerTeams
          /\ oracleAt' = IF oracleAt.index < NumTeams + 1
                         THEN [oracleAt EXCEPT !.index = @ + 1]
                         ELSE IF commitVersion < NumVersions
                         THEN [commitVersion |-> commitVersion + 1, index |-> 1]
                         ELSE [commitVersion |-> commitVersion, index |-> NumTeams + 2]
    /\ UNCHANGED <<envVars, serverPeekCursor, lastReply, commitRecord, leafVars, mergeVars, peek, pc, result, failure,
                   loopGhost, freeGhost, advance, preCall>>

\* The end of getMessagesFromMutableTeams: the result is sorted and returned.
GetMessagesFromMutableTeamsReturn ==
    /\ driver = "oracle"
    /\ oracleAt.index = NumTeams + 2
    /\ messagesFromCommitRecord' =
           SortMessages({messagesFromCommitRecord[i] : i \in 1..Len(messagesFromCommitRecord)})
    /\ oracleAt' = [oracleAt EXCEPT !.index = 0]
    /\ UNCHANGED <<envVars, serverPeekCursor, lastReply, commitRecord, activeStorageServerTeams, leafVars, mergeVars, peek, pc,
                   result, failure, loopGhost, freeGhost, advance, preCall>>

\* ------------------------------------------------------ ServerPeekCursor
\* LogMessageVersion: a version and a subsequence, ordered lexicographically;
\* reset(v) is the first position of version v.
LogMessageVersion(v, sub) == [version |-> v, sub |-> sub]

LogMessageVersionReset(v) == LogMessageVersion(v, 0)

LogMessageVersionLess(a, b) == a.version < b.version \/ (a.version = b.version /\ a.sub < b.sub)

Min(a, b) == IF a <= b THEN a ELSE b

\* The serialized messages of a TLogPeekReply, as the ArenaReader hands them
\* out after the message header: per version a SubsequencedItemsHeader
\* <<"sih", version, numItems>> followed by one <<"sub", subsequence, 0>> per
\* item; a version that holds only an EmptyVersion record has no items.
RECURSIVE Serialized(_)
Serialized(data) ==
    IF data = <<>> THEN <<>>
    ELSE LET v == data[1][1]
             items == SelectSeq(data, LAMBDA m : m[1] = v /\ ~IsEmptyVersionMessage(m))
             rest == SelectSeq(data, LAMBDA m : m[1] # v)
         IN << <<"sih", v, Len(items)>> >>
                \o [i \in 1..Len(items) |-> <<"sub", items[i][2], 0>>]
                \o Serialized(rest)

\* The cursor while no ServerPeekCursor is constructed.
NoServerPeekCursor ==
    [messageVersion |-> LogMessageVersion(invalidVersion, 0),
     end |-> LogMessageVersion(invalidVersion, 0), hasMsg |-> FALSE, rd |-> <<>>,
     results |-> [endVersion |-> invalidVersion], numMessagesInCurrentVersion |-> 0,
     messageIndexInCurrentVersion |-> 0, more |-> "invalid", request |-> invalidVersion,
     caughtEndOfStream |-> FALSE]

\* ServerPeekCursor::ServerPeekCursor(interf, tag, storageTeamId, begin, end,
\* returnIfBlocked, parallelGetMore = false).
NewServerPeekCursor(begin, end) ==
    [NoServerPeekCursor EXCEPT !.messageVersion = LogMessageVersion(begin, 0),
                               !.end = LogMessageVersion(end, 0)]

\* The loop of ServerPeekCursor::nextMessage that reads version headers: it
\* stops at a version at or past end, at a version with items, or when the
\* reader is drained.
RECURSIVE ReadVersionHeaders(_)
ReadVersionHeaders(c) ==
    IF c.rd = <<>> THEN c
    ELSE LET sih == Head(c.rd)
         IN IF sih[2] >= c.end.version
            THEN [c EXCEPT !.rd = Tail(@), !.messageVersion = LogMessageVersionReset(sih[2]),
                           !.hasMsg = FALSE, !.numMessagesInCurrentVersion = 0,
                           !.messageIndexInCurrentVersion = 0]
            ELSE LET c1 == [c EXCEPT !.rd = Tail(@),
                                     !.messageVersion = LogMessageVersionReset(sih[2]),
                                     !.hasMsg = sih[3] > 0,
                                     !.numMessagesInCurrentVersion = sih[3],
                                     !.messageIndexInCurrentVersion = 0]
                 IN IF c1.hasMsg THEN c1 ELSE ReadVersionHeaders(c1)

\* ServerPeekCursor::nextMessage on a cursor that has a message.
nextMessage(c) ==
    IF c.rd = <<>>
    THEN [c EXCEPT !.messageVersion = LogMessageVersionReset(Min(c.results.endVersion,
                                                                 c.end.version)),
                   !.hasMsg = FALSE]
    ELSE LET atHeader == c.messageIndexInCurrentVersion >= c.numMessagesInCurrentVersion
             r == IF atHeader THEN ReadVersionHeaders(c) ELSE c
         IN IF atHeader /\ (~r.hasMsg \/ r.rd = <<>>) THEN r
            ELSE [r EXCEPT !.rd = Tail(@), !.messageVersion.sub = Head(r.rd)[2],
                           !.hasMsg = TRUE, !.messageIndexInCurrentVersion = @ + 1]

\* ServerPeekCursor::advanceTo(n): the messages before n are read and
\* skipped; a cursor left without a message stands at n or later.
RECURSIVE serverPeekAdvanceTo(_, _)
serverPeekAdvanceTo(c, n) ==
    IF LogMessageVersionLess(c.messageVersion, n) /\ c.hasMsg
    THEN serverPeekAdvanceTo(nextMessage(c), n)
    ELSE IF c.hasMsg THEN c
    ELSE IF LogMessageVersionLess(c.messageVersion, n) THEN [c EXCEPT !.messageVersion = n]
    ELSE c

\* ServerPeekCursor::isExhausted and ServerPeekCursor::isActive (with the
\* interface present and its endpoint available).
isExhausted(c) == ~LogMessageVersionLess(c.messageVersion, c.end)

isActive(c) == LogMessageVersionLess(c.messageVersion, c.end)

\* The team whose TLog the ServerPeekCursor peeks.
ServerTeam == CHOOSE t \in Teams : \A u \in Teams : t <= u

\* ServerPeekCursor::getMore without parallelGetMore, up to the first wait of
\* serverPeekGetMore: with a message at hand it returns at once; a getMore
\* still pending is returned again; otherwise serverPeekGetMore starts, which
\* waits forever on an exhausted cursor and sends a TLogPeekRequest beginning
\* at messageVersion.version otherwise.
GetMore ==
    /\ driver = "server"
    /\ failure = "none"
    /\ LET c == serverPeekCursor
       IN serverPeekCursor' =
              IF c.hasMsg \/ c.more \in {"pending", "never"} THEN c
              ELSE IF isExhausted(c) THEN [c EXCEPT !.more = "never"]
              ELSE [c EXCEPT !.more = "pending", !.request = c.messageVersion.version]
    /\ UNCHANGED <<envVars, oracleVars, lastReply, leafVars, mergeVars, peek, pc, result, failure,
                   loopGhost, freeGhost, advance, preCall>>

\* serverPeekGetMore, the reply arrives with the next n versions: the reader
\* is set on the reply, the first message is read and the cursor skips to
\* where it stood.
ServerPeekReply(n) ==
    /\ driver = "server"
    /\ serverPeekCursor.more = "pending"
    /\ n <= Cardinality(VersionsFrom(tlog[ServerTeam], serverPeekCursor.request))
    /\ LET c == serverPeekCursor
           res == PeekReply(tlog[ServerTeam], c.request, n)
           c1 == [c EXCEPT !.results = [endVersion |-> res.endVersion],
                           !.rd = Serialized(res.data), !.hasMsg = TRUE]
       IN serverPeekCursor' = [serverPeekAdvanceTo(nextMessage(c1), c.messageVersion)
                                   EXCEPT !.more = "ready"]
    /\ result' = "ready"
    /\ UNCHANGED <<envVars, oracleVars, lastReply, leafVars, mergeVars, peek, pc, failure,
                   loopGhost, freeGhost, advance, preCall>>

\* The end of the cursor after serverPeekGetMore caught end_of_stream.
\* A catch block that puts the end one version past the cursor.
endAfterEndOfStreamPast(messageVersion) == LogMessageVersionReset(messageVersion.version + 1)

endAfterEndOfStream(messageVersion) == LogMessageVersionReset(messageVersion.version)

\* serverPeekGetMore, getReply throws (a stopped TLog answers end_of_stream
\* whatever it still holds): end_of_stream ends the cursor where it stands and
\* the actor returns, every other error is thrown on.
ServerPeekError(e) ==
    /\ driver = "server"
    /\ serverPeekCursor.more = "pending"
    /\ serverPeekCursor' =
           IF e = "end_of_stream"
           THEN [serverPeekCursor EXCEPT !.end = endAfterEndOfStream(serverPeekCursor.messageVersion),
                                         !.more = "ready", !.caughtEndOfStream = TRUE]
           ELSE [serverPeekCursor EXCEPT !.more = "error"]
    /\ result' = IF e = "end_of_stream" THEN "ready" ELSE e
    /\ UNCHANGED <<envVars, oracleVars, lastReply, leafVars, mergeVars, peek, pc, failure,
                   loopGhost, freeGhost, advance, preCall>>

\* The caller has read the message at hand and calls nextMessage().
NextMessage ==
    /\ driver = "server"
    /\ failure = "none"
    /\ serverPeekCursor.hasMsg
    /\ serverPeekCursor' = nextMessage(serverPeekCursor)
    /\ result' = "none"
    /\ UNCHANGED <<envVars, oracleVars, lastReply, leafVars, mergeVars, peek, pc, failure,
                   loopGhost, freeGhost, advance, preCall>>

\* The caller calls ServerPeekCursor::advanceTo(n).
ServerPeekAdvanceTo(n) ==
    /\ driver = "server"
    /\ failure = "none"
    /\ serverPeekCursor' = serverPeekAdvanceTo(serverPeekCursor, n)
    /\ result' = "none"
    /\ UNCHANGED <<envVars, oracleVars, lastReply, leafVars, mergeVars, peek, pc, failure,
                   loopGhost, freeGhost, advance, preCall>>

\* ------------------------------------------------------- specifications
\* The logs the TLogs hold. Every team has a record at every version up to
\* the version at which its epoch ended (broadcast model); at most one team
\* ends before the others, and a team receives the same number of messages
\* in every commit.
Ends == {[t \in Teams |-> IF t = s THEN e ELSE NumVersions] : s \in Teams, e \in 0..NumVersions}

MergeLogs == {[t \in Teams |-> TeamLog(t, [v \in 1..ends[t] |-> shape[t]], 1)] :
                 ends \in Ends, shape \in [Teams -> 0..MaxItems]}

LeafLogs == {[t \in Teams |-> IF t = LeafTeam THEN TeamLog(t, counts, 1) ELSE <<>>] :
                counts \in CountSeqs}

FreeLogs == {[t \in Teams |-> TeamLog(t, [v \in 1..ends[t] |-> MaxItems], 1)] : ends \in Ends}

\* The logs of the cancellation runs: every team's log is complete, or one
\* team's log is empty.
CancelLogs == {l \in FreeLogs : \A t \in Teams : Len(l[t]) \in {0, NumVersions * MaxItems}}

LastCommitted == NumVersions

\* The state after construction: StorageTeamPeekCursor's constructor for the
\* leaves, and for a merge cursor addCursor for every team.
InitCursor ==
    /\ lastVersion = [t \in Teams |-> BeginVersion - 1]
    /\ leafMaxKnownVersion = [t \in Teams |-> invalidVersion]
    /\ leafMinKnownCommittedVersion = [t \in Teams |-> invalidVersion]
    /\ deserializer = [t \in Teams |-> <<>>]
    /\ wrappedDeserializerIter = [t \in Teams |-> 1]
    /\ lastReply = [t \in Teams |-> NoReply]
    /\ mapper = IF cursorType = "leaf" THEN {} ELSE Teams
    /\ emptyCursorStorageTeamIDs = mapper
    /\ retiredCursorStorageTeamIDs = {}
    /\ pCursorContainer = <<>>
    /\ currentVersion = invalidVersion
    /\ remoteMoreAvailableSnapshot =
           [needSnapshot |-> FALSE, version |-> invalidVersion, pCursorContainer |-> <<>>]
    /\ maxKnownVersion = invalidVersion
    /\ minKnownCommittedVersion = invalidVersion
    /\ peek = [t \in Teams |-> Idle]
    /\ result = "none"
    /\ failure = "none"
    /\ messages = <<>>
    /\ batch = <<>>
    /\ batchDup = <<>>
    /\ emittedBefore = {}
    /\ emittedSince = {}
    /\ emittedPass = {}
    /\ lastGet = NoGet
    /\ advance = NoTarget
    /\ preCall = [made |-> FALSE, cursor |-> Cursor, pCursorContainer |-> <<>>]

\* No ServerPeekCursor is driven.
InitNoServer == serverPeekCursor = NoServerPeekCursor

\* No expected messages are computed while a cursor is driven.
InitNoOracle ==
    /\ commitRecord = [messages |-> <<>>, order |-> <<>>]
    /\ activeStorageServerTeams = {}
    /\ messagesFromCommitRecord = <<>>
    /\ oracleAt = [commitVersion |-> 0, index |-> 0]

Init ==
    /\ driver = "free"
    /\ cursorType \in {"ordered", "unordered"}
    /\ reportEmptyVersion = TRUE
    /\ tlog \in FreeLogs
    /\ replicaViews = {<<LastCommitted, LastCommitted>>}
    /\ pc = "idle"
    /\ InitCursor
    /\ InitNoServer
    /\ InitNoOracle

InitLoop ==
    /\ driver = "loop"
    /\ cursorType \in {"leaf", "ordered", "unordered"}
    /\ reportEmptyVersion \in IF cursorType = "leaf" THEN BOOLEAN ELSE {TRUE}
    /\ tlog \in IF cursorType = "leaf" THEN LeafLogs ELSE MergeLogs
    /\ replicaViews = {<<LastCommitted, LastCommitted>>}
    /\ pc = "call"
    /\ InitCursor
    /\ InitNoServer
    /\ InitNoOracle

PeekReplies ==
    \/ \E t \in Teams, n \in 1..MaxVersionsPerPeek, view \in replicaViews : PeekReplyData(t, n, view)
    \/ \E t \in Teams : PeekReplyEmpty(t)
    \/ \E t \in Teams : PeekReplyEndOfStream(t)
    \/ \E t \in Teams : PeekBackoff(t)

Next ==
    \/ HasRemaining
    \/ GetNext
    \/ Reset
    \/ RemoteMoreAvailable
    \/ PeekReplies
    \/ RemoteMoreAvailableReturn

NextLoop ==
    \/ Next
    \/ LeafRemoteMoreAvailable
    \/ LeafRemoteMoreAvailableReturn
    \/ LeafHasRemaining
    \/ LeafGetNext
    \/ LeafReset

InitTrack ==
    /\ driver = "track"
    /\ cursorType \in {"ordered", "unordered"}
    /\ reportEmptyVersion = TRUE
    /\ tlog \in FreeLogs
    /\ replicaViews = {<<LastCommitted, LastCommitted>>}
    /\ pc = "idle"
    /\ InitCursor
    /\ InitNoServer
    /\ InitNoOracle

\* A leaf or a merge cursor whose teams have two TLog replicas: one knows of
\* a version past the last committed one, the other lags a version behind.
\* Both hold every committed version.
InitReplicas ==
    /\ driver = "free"
    /\ cursorType \in {"leaf", "ordered"}
    /\ reportEmptyVersion = TRUE
    /\ tlog \in FreeLogs
    /\ replicaViews = {<<LastCommitted + 1, LastCommitted>>, <<LastCommitted, LastCommitted - 1>>}
    /\ pc = "idle"
    /\ InitCursor
    /\ InitNoServer
    /\ InitNoOracle

\* An ordered merge cursor positioned by advanceTo calls, one after another.
InitAdvance ==
    /\ driver = "advance"
    /\ cursorType = "ordered"
    /\ reportEmptyVersion = TRUE
    /\ tlog \in MergeLogs
    /\ replicaViews = {<<LastCommitted, LastCommitted>>}
    /\ pc = "idle"
    /\ InitCursor
    /\ InitNoServer
    /\ InitNoOracle

NextAdvance ==
    \/ HasRemaining
    \/ GetNext
    \/ RemoteMoreAvailable
    \/ PeekReplies
    \/ RemoteMoreAvailableReturn
    \/ \E version \in 1..NumVersions, subsequence \in TargetSubsequences :
          AdvanceTo(version, subsequence)

\* An ordered merge cursor whose caller also adds and removes leaves.
InitMembers ==
    /\ driver = "members"
    /\ cursorType = "ordered"
    /\ reportEmptyVersion = TRUE
    /\ tlog \in CancelLogs
    /\ replicaViews = {<<LastCommitted, LastCommitted>>}
    /\ pc = "idle"
    /\ InitCursor
    /\ InitNoServer
    /\ InitNoOracle

NextMembers ==
    \/ Next
    \/ \E t \in Teams : AddCursor(t)
    \/ \E t \in Teams : RemoveCursor(t)

\* A ServerPeekCursor without parallelGetMore on the TLog of one team, built
\* to read from the begin version up to some end.
ServerEnds == 1..(NumVersions + 1)

InitServer ==
    /\ driver = "server"
    /\ cursorType = "leaf"
    /\ reportEmptyVersion = TRUE
    /\ tlog \in LeafLogs
    /\ replicaViews = {<<LastCommitted, LastCommitted>>}
    /\ pc = "idle"
    /\ InitCursor
    /\ InitNoOracle
    /\ \E end \in ServerEnds : serverPeekCursor = NewServerPeekCursor(BeginVersion, end)

NextServer ==
    \/ GetMore
    \/ \E n \in 1..MaxVersionsPerPeek : ServerPeekReply(n)
    \/ \E e \in TransportErrors \cup {"end_of_stream"} : ServerPeekError(e)
    \/ NextMessage
    \/ \E v \in 1..(NumVersions + 1), sub \in 0..(NumTeams * MaxItems) :
          ServerPeekAdvanceTo(LogMessageVersion(v, sub))

\* A merge cursor whose caller may drop a pending remoteMoreAvailable.
InitCancel ==
    /\ driver = "cancel"
    /\ cursorType = "ordered"
    /\ reportEmptyVersion = TRUE
    /\ tlog \in CancelLogs
    /\ replicaViews = {<<LastCommitted, LastCommitted>>}
    /\ pc = "idle"
    /\ InitCursor
    /\ InitNoServer
    /\ InitNoOracle

NextCancel ==
    \/ Next
    \/ Cancel

\* A leaf or a merge cursor whose peek requests may fail.
InitFaulty ==
    /\ driver = "free"
    /\ cursorType \in {"leaf", "ordered", "unordered"}
    /\ reportEmptyVersion = TRUE
    /\ tlog \in FreeLogs
    /\ replicaViews = {<<LastCommitted, LastCommitted>>}
    /\ pc = "idle"
    /\ InitCursor
    /\ InitNoServer
    /\ InitNoOracle

NextFaulty ==
    \/ NextLoop
    \/ \E t \in Teams, e \in TransportErrors : PeekReplyError(t, e)

\* getMessagesFromMutableTeams over the commit records of the mutable-team
\* test: the messages OrderedMutableTeamPeekCursor is expected to return.
InitMutableTeams ==
    /\ driver = "oracle"
    /\ cursorType = "ordered"
    /\ reportEmptyVersion = TRUE
    /\ tlog = [t \in Teams |-> <<>>]
    /\ replicaViews = {<<LastCommitted, LastCommitted>>}
    /\ pc = "idle"
    /\ InitCursor
    /\ InitNoServer
    /\ commitRecord \in {[messages |-> m, order |-> o] : m \in CommitRecords, o \in TeamOrders}
    /\ activeStorageServerTeams = {}
    /\ messagesFromCommitRecord = <<>>
    /\ oracleAt = [commitVersion |-> 1, index |-> 1]

NextMutableTeams ==
    \/ GetMessagesFromMutableTeams
    \/ GetMessagesFromMutableTeamsReturn

Spec == Init /\ [][Next]_vars

SpecMutableTeams == InitMutableTeams /\ [][NextMutableTeams]_vars

SpecAdvance == InitAdvance /\ [][NextAdvance]_vars

SpecServer == InitServer /\ [][NextServer]_vars

SpecMembers == InitMembers /\ [][NextMembers]_vars

SpecCancel == InitCancel /\ [][NextCancel]_vars

SpecFaulty == InitFaulty /\ [][NextFaulty]_vars

SpecReplicas == InitReplicas /\ [][NextLoop]_vars

SpecTrack == InitTrack /\ [][Next]_vars

SpecLoop == InitLoop /\ [][NextLoop]_vars

\* The consumer loop is a sequential program that always makes its next call,
\* and every peek it waits for completes with a reply, a timeout or
\* end_of_stream.
SpecLoopFair == InitLoop /\ [][NextLoop]_vars /\ WF_vars(NextLoop)

\* ================================================================ claims
IsMerge == cursorType \in {"ordered", "unordered"}

\* <<version, subsequence>> of a recorded <<team, version, subsequence>>.
KeyLess(a, b) == a[2] < b[2] \/ (a[2] = b[2] /\ a[3] < b[3])

IsPrefix(p, q) == Len(p) <= Len(q) /\ SubSeq(q, 1, Len(p)) = p

TeamsIn(seq) == {seq[i][1] : i \in 1..Len(seq)}
VersionsIn(seq) == {seq[i][2] : i \in 1..Len(seq)}

Occurrences(seq, x) == Cardinality({i \in 1..Len(seq) : seq[i] = x})

\* C1: replay idempotence of the merge cursor. In a round of the consumer
\* loop, the iteration after reset() returns the VSMs of the iteration before
\* it, in the same order: while it runs it has returned a prefix of them, and
\* when has_remaining has become false it has returned all of them.
C1_ReplayIdempotence ==
    IsMerge =>
        /\ pc \in {"iterDup", "bodyDup"} => IsPrefix(batchDup, batch)
        /\ pc = "call" => batchDup = batch

\* C1 witness: a finished round of a merge cursor whose replay covered VSMs
\* of two teams at two versions.
C1_Witness ==
    /\ IsMerge
    /\ pc = "call"
    /\ batchDup = batch
    /\ Cardinality(TeamsIn(batch)) >= 2
    /\ Cardinality(VersionsIn(batch)) >= 2

\* C2: the VSMs the consumer loop collects from the ordered merge cursor are
\* sorted by (version, subsequence): none is collected after one that is
\* greater.
C2_OrderedTotalOrder ==
    cursorType = "ordered" =>
        \A i, j \in 1..Len(messages) : i < j => ~KeyLess(messages[j], messages[i])

\* C2 witness: the loop has ended on an ordered cursor that alternated
\* between two teams inside one version, over two versions.
C2_Witness ==
    /\ cursorType = "ordered"
    /\ pc = "done"
    /\ Cardinality(VersionsIn(messages)) >= 2
    /\ \E i \in 1..(Len(messages) - 2) :
          /\ messages[i][2] = messages[i + 2][2]
          /\ messages[i][1] = messages[i + 2][1]
          /\ messages[i][1] # messages[i + 1][1]

\* The records of the cursor's teams the TLogs hold at or after the begin
\* version, without the EmptyVersion records a leaf does not report.
CursorTeams == IF cursorType = "leaf" THEN {LeafTeam} ELSE Teams

CommittedFromBegin ==
    UNION {{<<t>> \o tlog[t][i] : i \in {j \in 1..Len(tlog[t]) :
                 /\ tlog[t][j][1] >= BeginVersion
                 /\ reportEmptyVersion \/ ~IsEmptyVersionMessage(tlog[t][j])}} : t \in CursorTeams}

\* C3: completeness. The consumer loop never collects a VSM twice, and when
\* it has ended with EndOfStream it has collected every committed VSM of the
\* cursor's teams at or after the begin version.
C3_Completeness ==
    /\ \A i, j \in 1..Len(messages) : i # j => messages[i] # messages[j]
    /\ pc = "done" => \A x \in CommittedFromBegin : Occurrences(messages, x) = 1

\* C3 witness: the loop has ended on a merge cursor after rounds that had
\* empty replies and timeouts, with VSMs of two teams collected.
C3_Witness ==
    /\ IsMerge
    /\ pc = "done"
    /\ Cardinality(TeamsIn(messages)) >= 2
    /\ Len(messages) >= 4
    /\ CommittedFromBegin = {messages[i] : i \in 1..Len(messages)}

\* C4: no duplication. A get() that completes on a merge cursor never returns
\* a VSM that was delivered before the most recent refill, and never returns
\* a VSM twice in one pass (between a refill or reset() and the next one).
C4_NoDuplication ==
    (IsMerge /\ failure = "none" /\ lastGet.vsm # <<>>) => ~lastGet.old /\ ~lastGet.again

\* C5: same-version invariant. Between the operations of a merge cursor, a
\* non-empty ready container holds only leaves that have a buffered current
\* VSM, and the version of that VSM is current_version.
C5_SameVersion ==
    (IsMerge /\ failure = "none" /\ pc # "rma" /\ pCursorContainer # <<>>) =>
        \A i \in 1..Len(pCursorContainer) :
            LET t == pCursorContainer[i]
            IN /\ LeafReady(deserializer, wrappedDeserializerIter, t)
               /\ LeafKeys(deserializer, wrappedDeserializerIter)[t][1] = currentVersion

\* C6: the VSMs the consumer loop collects from the unordered merge cursor
\* come in increasing version order; inside one version the VSMs of one team
\* are contiguous, and they are in the team's own subsequence order.
C6_UnorderedGrouping ==
    cursorType = "unordered" =>
        /\ \A i, j \in 1..Len(messages) : i < j => messages[i][2] <= messages[j][2]
        /\ \A i, j, k \in 1..Len(messages) :
               (i < j /\ j < k /\ messages[i][1] = messages[k][1] /\ messages[i][2] = messages[k][2])
                   => messages[j][1] = messages[i][1]
        /\ \A i, j \in 1..Len(messages) :
               (i < j /\ messages[i][1] = messages[j][1] /\ messages[i][2] = messages[j][2])
                   => messages[i][3] < messages[j][3]

\* C6 witness: the loop has ended on an unordered cursor that collected two
\* versions and, inside a version, two VSMs of one team before a VSM of
\* another team whose subsequence lies between theirs.
C6_Witness ==
    /\ cursorType = "unordered"
    /\ pc = "done"
    /\ Cardinality(VersionsIn(messages)) >= 2
    /\ \E i \in 1..(Len(messages) - 2) :
          /\ messages[i][1] = messages[i + 1][1]
          /\ messages[i][2] = messages[i + 2][2]
          /\ messages[i + 1][1] # messages[i + 2][1]
          /\ messages[i][3] < messages[i + 2][3]
          /\ messages[i + 2][3] < messages[i + 1][3]

\* The consumer loop drives the cursors without a failed assertion and
\* without undefined behaviour.
LoopNeverFails == failure = "none"

\* The leaves of the merge cursor that have ended and have nothing buffered,
\* and the other leaves.
RetiredDrained ==
    {t \in mapper \cap retiredCursorStorageTeamIDs :
        ~LeafReady(deserializer, wrappedDeserializerIter, t)}

NotRetiredDrained == mapper \ RetiredDrained

TeamLogFromBegin(t) ==
    {<<t>> \o tlog[t][i] : i \in {j \in 1..Len(tlog[t]) : tlog[t][j][1] >= BeginVersion}}

Collected == {messages[i] : i \in 1..Len(messages)}

\* A refill (hasRemaining() on an empty container) with an ended, drained
\* leaf and every other leaf holding data succeeds and leaves the ended leaf
\* out of the container.
RetiredNeverBlocks ==
    (/\ IsMerge
     /\ pc = "iter"
     /\ pCursorContainer = <<>>
     /\ RetiredDrained # {}
     /\ NotRetiredDrained # {}
     /\ \A t \in NotRetiredDrained : LeafReady(deserializer, wrappedDeserializerIter, t))
    => (/\ pc' = "body"
        /\ {pCursorContainer'[i] : i \in 1..Len(pCursorContainer')} = NotRetiredDrained)

\* Every leaf has ended and nothing is buffered.
AllEndedAndDrained ==
    /\ IsMerge
    /\ pc # "rma"
    /\ RetiredDrained = mapper

\* C7: retirement. In the consumer loop over a merge cursor, a leaf that has
\* ended and is drained never blocks the refill of the other leaves; a leaf is
\* dropped from the cursor only after all its VSMs were collected; and once
\* every leaf has ended and nothing is buffered, the loop eventually sees
\* remoteMoreAvailable raise end_of_stream.
C7_Retirement ==
    /\ [][RetiredNeverBlocks]_vars
    /\ [](IsMerge => \A t \in Teams \ mapper : TeamLogFromBegin(t) \subseteq Collected)
    /\ AllEndedAndDrained ~> (pc = "done" /\ result = "end_of_stream")

\* C7 witness: the loop has ended on a merge cursor one of whose leaves ended
\* a version before the other; the other leaf's VSMs of the later version
\* were collected.
C7_Witness ==
    /\ IsMerge
    /\ pc = "done"
    /\ result = "end_of_stream"
    /\ \E t, u \in Teams :
          /\ Len(tlog[t]) > 0
          /\ \A i \in 1..Len(tlog[t]) : tlog[t][i][1] < NumVersions
          /\ \E i \in 1..Len(tlog[u]) :
                tlog[u][i][1] = NumVersions /\ <<u>> \o tlog[u][i] \in Collected

\* The leaves a remoteMoreAvailable call of the merge cursor peeked, once all
\* their peeks have completed, and how each peek ended.
Peeked == {t \in Teams : peek[t].st # "idle"}
PeekedEnded == {t \in Peeked : peek[t].st = "eos"}
PeekedTimedOut == {t \in Peeked : peek[t].st = "timeout"}
PeekedData == {t \in Peeked : peek[t].st = "data"}

\* The step in which a remoteMoreAvailable call of the merge cursor returns.
Returns == IsMerge /\ pc = "rma" /\ pc' # "rma"

\* C8 as stated: a merge remoteMoreAvailable call all of whose peeked leaves
\* ended with end_of_stream raises end_of_stream itself.
C8_SameCallThrows ==
    [][(Returns /\ PeekedEnded = Peeked) => result' = "end_of_stream"]_vars

\* C8 amended: a merge remoteMoreAvailable call all of whose peeked leaves
\* ended returns true, with those leaves retired and the empty set empty; a
\* remoteMoreAvailable call that finds every leaf of the empty set retired
\* raises end_of_stream on entry, if dropping the retired leaves completes.
C8_NextCallThrows ==
    [][/\ (Returns /\ PeekedEnded = Peeked) =>
              /\ result' = "true"
              /\ emptyCursorStorageTeamIDs' = {}
              /\ Peeked \subseteq retiredCursorStorageTeamIDs'
       /\ (/\ RemoteMoreAvailable
           /\ failure' = "none"
           /\ emptyCursorStorageTeamIDs \subseteq retiredCursorStorageTeamIDs) =>
              result' = "end_of_stream"]_vars

\* C8 witness: a remoteMoreAvailable call in which every leaf of the merge
\* cursor was peeked and ended has just returned true.
C8_Witness ==
    /\ IsMerge
    /\ pc = "idle"
    /\ result = "true"
    /\ remoteMoreAvailableSnapshot.needSnapshot
    /\ mapper # {}
    /\ retiredCursorStorageTeamIDs = mapper
    /\ emptyCursorStorageTeamIDs = {}

C10_WatermarkMonotone ==
    [][/\ cursorType = "leaf" =>
              /\ leafMaxKnownVersion'[LeafTeam] >= leafMaxKnownVersion[LeafTeam]
              /\ leafMinKnownCommittedVersion'[LeafTeam] >= leafMinKnownCommittedVersion[LeafTeam]
       /\ IsMerge =>
              /\ maxKnownVersion' >= maxKnownVersion
              /\ minKnownCommittedVersion' >= minKnownCommittedVersion]_vars

\* C11: a remoteMoreAvailable call on a merge cursor that has no leaf raises
\* end_of_stream in the step of the call: no peek is started and the call is
\* not left pending.
C11_ZeroLeavesEndOfStream ==
    [][(RemoteMoreAvailable /\ mapper = {}) =>
           /\ result' = "end_of_stream"
           /\ failure' = "none"
           /\ pc' # "rma"
           /\ \A t \in Teams : peek'[t] = Idle]_vars

\* C11 witness: a call that found the merge cursor without any leaf has
\* raised end_of_stream.
C11_Witness ==
    /\ IsMerge
    /\ pc = "idle"
    /\ result = "end_of_stream"
    /\ preCall.made
    /\ preCall.cursor.mapper = {}

\* The (version, subsequence) of the VSMs the TLogs hold, and the one get()
\* of the merge cursor returns (NoKey when the container is empty).
LogKeys == UNION {{tlog[t][i] : i \in 1..Len(tlog[t])} : t \in Teams}

CurrentKey ==
    IF pCursorContainer = <<>> THEN NoKey
    ELSE LeafKeys(deserializer, wrappedDeserializerIter)[pCursorContainer[1]]

AtOrAfter(key, version, subsequence) ==
    key[1] > version \/ (key[1] = version /\ key[2] >= subsequence)

\* An advanceTo call has returned after finding a VSM at or after its target.
AdvanceToReached == ~advance.active /\ advance.outcome = "reached" /\ failure = "none"

\* The VSMs of the log the cursor had not passed when the advanceTo call
\* began: all of them for the first call on the cursor, those at or after the
\* VSM get() returned for a later call.
NotPassed ==
    {k \in LogKeys : advance.first \/ (advance.from # NoKey /\ operatorSpaceship(advance.from, k) <= 0)}

\* C12: advanceTo on the ordered merge cursor. When advanceTo(V, S) has
\* returned without a remoteMoreAvailable that returned false, get() returns
\* the smallest VSM at or after (V, S) among those the cursor had not passed:
\* the VSM (V, S) itself if the log holds it, the closest greater one
\* otherwise. While it runs, advanceTo never dereferences the cursor where it
\* has no VSM.
C12_AdvanceToPosition ==
    (driver = "advance" /\ cursorType = "ordered") =>
        /\ (AdvanceToReached /\ (advance.first \/ advance.from # NoKey)) =>
               /\ CurrentKey \in NotPassed
               /\ AtOrAfter(CurrentKey, advance.version, advance.subsequence)
               /\ \A k \in NotPassed :
                      AtOrAfter(k, advance.version, advance.subsequence)
                          => operatorSpaceship(CurrentKey, k) <= 0
        /\ ~(advance.active /\ failure = "undefined")

\* A running advanceTo call whose target is at or before the VSM get()
\* returned when the call began.
TargetNotAhead ==
    /\ driver = "advance"
    /\ advance.active
    /\ advance.from # NoKey
    /\ AtOrAfter(advance.from, advance.version, advance.subsequence)

\* C13: advanceTo with a target at or before the cursor's current VSM does
\* nothing. Its only step is the has_remaining of its first test, after which
\* it returns: it has called neither next() nor remoteMoreAvailable, and the
\* merge cursor and its leaves are exactly as they were, so that the same
\* call made again meets the same state and does the same.
C13_AdvanceToNoOp ==
    [][TargetNotAhead =>
           /\ UNCHANGED <<mergeVars, leafVars>>
           /\ failure' = "none"
           /\ pc' = "idle"
           /\ ~advance'.active
           /\ advance'.outcome = "reached"
           /\ ~advance'.moved
           /\ ~advance'.called]_vars

\* C13 witness: an advanceTo call whose target lay before the cursor's
\* current VSM has returned, the cursor still at that VSM.
C13_Witness ==
    /\ driver = "advance"
    /\ ~advance.active
    /\ advance.outcome = "reached"
    /\ advance.from # NoKey
    /\ advance.from # <<advance.version, advance.subsequence>>
    /\ AtOrAfter(advance.from, advance.version, advance.subsequence)
    /\ ~advance.moved
    /\ CurrentKey = advance.from

\* C14: advanceTo and remoteMoreAvailable. When a remoteMoreAvailable call
\* issued by advanceTo returns false, advanceTo returns in that step, without
\* an error, without another next() and with no VSM at or after the target
\* under the cursor. advanceTo calls remoteMoreAvailable only when
\* has_remaining has just returned false on an empty container and every VSM
\* it passed was below the target.
C14_AdvanceToStopsOnFalse ==
    [][/\ (advance.active /\ Returns /\ result' = "false") =>
              /\ pc' = "idle"
              /\ failure' = "none"
              /\ ~advance'.active
              /\ advance'.outcome = "notReached"
              /\ UNCHANGED <<leafVars, pCursorContainer>>
              /\ pCursorContainer' = <<>>
       /\ (advance.active /\ RemoteMoreAvailable) =>
              /\ result = "false"
              /\ pCursorContainer = <<>>
              /\ advance.last # NoKey =>
                     ~AtOrAfter(advance.last, advance.version, advance.subsequence)]_vars

\* C14 witness: an advanceTo call that had passed VSMs below its target has
\* returned because its remoteMoreAvailable call returned false.
C14_Witness ==
    /\ driver = "advance"
    /\ pc = "idle"
    /\ result = "false"
    /\ ~advance.active
    /\ advance.outcome = "notReached"
    /\ advance.moved

\* C15: transport errors. When the peek request of a leaf fails with an
\* error other than end_of_stream, the pending remoteMoreAvailable call (of the
\* leaf used on its own, or of the merge cursor that holds it) fails with that
\* error in the same step, and the leaf's last version, watermarks and
\* buffered VSMs are what they were before the request failed.
C15_TransportErrorPropagates ==
    [][\A t \in Teams, e \in TransportErrors :
           PeekReplyError(t, e) =>
               /\ result' = e
               /\ pc' # "rma"
               /\ failure' = "none"
               /\ lastVersion'[t] = lastVersion[t]
               /\ leafMaxKnownVersion'[t] = leafMaxKnownVersion[t]
               /\ leafMinKnownCommittedVersion'[t] = leafMinKnownCommittedVersion[t]
               /\ deserializer'[t] = deserializer[t]
               /\ wrappedDeserializerIter'[t] = wrappedDeserializerIter[t]]_vars

\* C15 witness: a remoteMoreAvailable call of a merge cursor has failed with
\* a transport error after another leaf had received data; the leaf whose
\* request failed is still to be refilled, from its begin version.
C15_Witness ==
    /\ IsMerge
    /\ pc = "idle"
    /\ result \in TransportErrors
    /\ \E t \in emptyCursorStorageTeamIDs :
          /\ lastVersion[t] = BeginVersion - 1
          /\ deserializer[t] = <<>>
    /\ \E u \in mapper : deserializer[u] # <<>>

\* C16: local recovery. When the peek request of a leaf raises timed_out or
\* operation_obsolete, the pending remoteMoreAvailable call does not end with
\* that error: it stays pending, to retry from the current watermark.
C16_RecoversLocally ==
    [][\A t \in Teams, e \in {"timed_out", "operation_obsolete"} :
           PeekReplyError(t, e) => (result' \notin TransportErrors /\ pc' = "rma")]_vars

\* C17: cancellation. Right after a pending remoteMoreAvailable call of the
\* merge cursor was cancelled, the cursor is as the call found it: mapper,
\* empty and retired sets, current version, snapshot and its pending flag,
\* container, and every leaf's buffer, position, last version and watermarks.
C17_CancelRestores ==
    (driver = "cancel" /\ pc = "idle" /\ result = "cancelled") => Cursor = preCall.cursor

\* C18: the snapshot holds the position before the peeks. A reset() that
\* directly follows a remoteMoreAvailable call which returned true or false
\* leaves the merge cursor with the current version and the container it had
\* when that call started its peeks.
C18_SnapshotBeforePeek ==
    [][(/\ driver = "cancel"
        /\ preCall.made
        /\ remoteMoreAvailableSnapshot.needSnapshot
        /\ result \in {"true", "false"}
        /\ Reset) =>
           /\ currentVersion' = preCall.cursor.currentVersion
           /\ pCursorContainer' = preCall.pCursorContainer]_vars

\* C19: a merge cursor with exactly one leaf, which has no buffered VSM, keeps
\* its current version: no step of a has_remaining or remoteMoreAvailable call
\* (empty replies, timeouts and the leaf's end_of_stream included) lowers it.
C19_SingleLeafVersionKept ==
    [][(/\ IsMerge
        /\ Cardinality(mapper) = 1
        /\ \A t \in mapper : ~LeafReady(deserializer, wrappedDeserializerIter, t)
        /\ (HasRemaining \/ RemoteMoreAvailable \/ pc = "rma")) =>
           currentVersion' >= currentVersion]_vars

\* C20: the comparison of two leaves never reports leaves of two different
\* storage teams as equal: whenever two leaves of the merge cursor both have a
\* current VSM, operatorSpaceship orders them one way or the other.
C20_TeamBreaksTies ==
    IsMerge =>
        \A t, u \in mapper :
            (/\ t # u
             /\ LeafReady(deserializer, wrappedDeserializerIter, t)
             /\ LeafReady(deserializer, wrappedDeserializerIter, u)) =>
                operatorSpaceship(LeafKeys(deserializer, wrappedDeserializerIter)[t],
                                  LeafKeys(deserializer, wrappedDeserializerIter)[u]) # 0

\* The storage teams in force when commitVersion begins: the param2 of the
\* latest membership mutation of an earlier version.
RECURSIVE TeamsBefore(_, _)
TeamsBefore(records, commitVersion) ==
    IF commitVersion <= 1 THEN {}
    ELSE LET m == records[commitVersion - 1][privateMutationsStorageTeamID]
         IN IF m = <<>> THEN TeamsBefore(records, commitVersion - 1) ELSE m[1][2]

\* The messages of storage team t at commitVersion in the commit records.
RecordedAt(t, commitVersion) ==
    {<<t, commitVersion, commitRecord.messages[commitVersion][t][i][1]>> :
        i \in 1..Len(commitRecord.messages[commitVersion][t])}

ExpectedMessages == {messagesFromCommitRecord[i] : i \in 1..Len(messagesFromCommitRecord)}

\* C21: the mutable-team cursor changes its team set between versions only.
\* The messages it is expected to return hold, for every version V, every VSM
\* at V of every storage team that was in the set when V began: a membership
\* mutation at V takes effect after V, so the VSMs at V of a team it removes
\* are still delivered.
C21_MembershipBetweenVersions ==
    (driver = "oracle" /\ oracleAt.index = 0) =>
        \A commitVersion \in 1..NumVersions :
            \A t \in TeamsBefore(commitRecord.messages, commitVersion) :
                RecordedAt(t, commitVersion) \subseteq ExpectedMessages

\* C22: every peek request of a leaf cursor begins one past the leaf's last
\* version: while the request is in flight, its beginVersion is the leaf's
\* stored last version plus one.
C22_RequestBeginsAfterLast ==
    \A t \in Teams : peek[t].st = "pending" => peek[t].begin = lastVersion[t] + 1

\* The step in which the peek request of leaf t is answered with messages.
DataReply(t) == peek[t].st = "pending" /\ peek'[t].st = "data"

\* C23: consecutive successful peeks of a leaf are adjacent. After a reply
\* with messages whose exclusive upper bound is end_version, every request of
\* the leaf begins exactly at end_version until the next such reply, and that
\* reply holds exactly the team's committed records from end_version up to its
\* own end_version: none is skipped and none comes twice.
C23_NextPeekAtEndVersion ==
    [][\A t \in Teams :
          /\ (peek'[t].st = "pending" /\ lastReply'[t].endVersion # invalidVersion) =>
                 peek'[t].begin = lastReply'[t].endVersion
          /\ (DataReply(t) /\ lastReply[t].endVersion # invalidVersion) =>
                 /\ lastReply'[t].endVersion > lastReply[t].endVersion
                 /\ deserializer'[t] =
                        SelectSeq(tlog[t], LAMBDA m : m[1] >= lastReply[t].endVersion
                                                      /\ m[1] < lastReply'[t].endVersion)]_vars

\* C23 witness: a leaf used on its own has just received its second reply
\* with messages, which holds the last committed version only.
C23_Witness ==
    /\ cursorType = "leaf"
    /\ peek[LeafTeam].st = "data"
    /\ peek[LeafTeam].begin = NumVersions
    /\ lastReply[LeafTeam].endVersion = NumVersions + 1
    /\ deserializer[LeafTeam] # <<>>
    /\ deserializer[LeafTeam][1][1] = NumVersions

\* The step in which the peek request of leaf t is answered without messages.
EmptyReply(t) == peek[t].st = "pending" /\ peek'[t].i = peek[t].i + 1

\* The step in which remoteMoreAvailable of a leaf used on its own returns.
LeafReturns == cursorType = "leaf" /\ pc = "rma" /\ pc' # "rma"

\* C24: remoteMoreAvailable of a leaf. A reply without messages leaves the
\* leaf's last version and watermarks as they were, and the call of a leaf
\* used on its own returns false; a reply with messages sets the last version
\* to the reply's end_version and the watermarks to the reply's, and the call
\* returns true. So the last version is never below begin_version - 1: it is
\* begin_version - 1 until the first reply with messages and the end_version
\* of the latest such reply afterwards.
C24_LeafRemoteMoreAvailable ==
    [][\A t \in Teams :
          /\ EmptyReply(t) =>
                 /\ lastVersion'[t] = lastVersion[t]
                 /\ leafMaxKnownVersion'[t] = leafMaxKnownVersion[t]
                 /\ leafMinKnownCommittedVersion'[t] = leafMinKnownCommittedVersion[t]
          /\ DataReply(t) =>
                 /\ lastVersion'[t] = lastReply'[t].endVersion
                 /\ leafMaxKnownVersion'[t] = lastReply'[t].maxKnownVersion
                 /\ leafMinKnownCommittedVersion'[t] = lastReply'[t].minKnownCommittedVersion
          /\ (LeafReturns /\ t = LeafTeam) =>
                 /\ peek[t].st = "timeout" => result' = "false"
                 /\ peek[t].st = "data" => result' = "true"
          /\ lastVersion'[t] >= BeginVersion - 1
          /\ lastVersion'[t] = IF lastReply'[t] = NoReply THEN BeginVersion - 1
                               ELSE lastReply'[t].endVersion]_vars

\* C24 witness: a leaf used on its own has returned false on a reply without
\* messages after an earlier reply with messages, its last version and
\* watermarks still those of the earlier reply.
C24_Witness ==
    /\ cursorType = "leaf"
    /\ pc = "idle"
    /\ result = "false"
    /\ lastReply[LeafTeam] # NoReply
    /\ lastVersion[LeafTeam] = lastReply[LeafTeam].endVersion
    /\ leafMaxKnownVersion[LeafTeam] = lastReply[LeafTeam].maxKnownVersion
    /\ deserializer[LeafTeam] = <<>>

\* The leaves of the merge cursor that are not retired and have no buffered
\* VSM, and the leaves in the ready container.
EmptyNotRetired ==
    {t \in mapper \ retiredCursorStorageTeamIDs :
        ~LeafReady(deserializer, wrappedDeserializerIter, t)}

InContainer(c) == {c[i] : i \in 1..Len(c)}

\* The step in which has_remaining runs try_fill_container to its end.
TryFills == IsMerge /\ HasRemaining /\ pCursorContainer = <<>> /\ failure' = "none"

\* C25: refill gating. When try_fill_container finds a leaf that is not
\* retired and has no buffered VSM, it returns false and the ready container
\* stays empty. When it fills the container, every leaf that is not retired is
\* in it, with a buffered VSM of the version it exposes.
C25_RefillGating ==
    [][TryFills =>
          /\ EmptyNotRetired # {} => (result' = "false" /\ pCursorContainer' = <<>>)
          /\ pCursorContainer' # <<>> =>
                 /\ result' = "true"
                 /\ EmptyNotRetired = {}
                 /\ mapper \ retiredCursorStorageTeamIDs \subseteq InContainer(pCursorContainer')
                 /\ \A t \in InContainer(pCursorContainer') :
                        /\ LeafReady(deserializer, wrappedDeserializerIter, t)
                        /\ LeafKeys(deserializer, wrappedDeserializerIter)[t][1] = currentVersion']_vars

\* C25 witness: has_remaining has just filled the container of a merge cursor
\* one of whose leaves is retired and left out of it.
C25_Witness ==
    /\ IsMerge
    /\ pc = "idle"
    /\ result = "true"
    /\ failure = "none"
    /\ ~remoteMoreAvailableSnapshot.needSnapshot
    /\ remoteMoreAvailableSnapshot.pCursorContainer = pCursorContainer
    /\ pCursorContainer # <<>>
    /\ mapper \cap retiredCursorStorageTeamIDs # {}
    /\ InContainer(pCursorContainer) = mapper \ retiredCursorStorageTeamIDs

\* C26: remoteMoreAvailable of the merge cursor raises end_of_stream only
\* when the cursor is finished: every leaf it holds when the call is made is
\* retired, and none has a buffered VSM that was not delivered. This holds
\* whatever the caller did before, a call while has_remaining is true or
\* right after reset() included.
C26_EndOfStreamOnlyWhenDone ==
    [][(IsMerge /\ RemoteMoreAvailable /\ result' = "end_of_stream") =>
          /\ mapper \subseteq retiredCursorStorageTeamIDs
          /\ \A t \in mapper : ~LeafReady(deserializer, wrappedDeserializerIter, t)]_vars

\* C27: has_remaining on a merge cursor that has no leaf left returns false
\* and fails no assertion.
C27_NoLeavesNoRemaining ==
    [][(IsMerge /\ HasRemaining /\ mapper = {}) =>
          (result' = "false" /\ failure' = "none")]_vars

\* C28: the lazy snapshot of the merge cursor. A remoteMoreAvailable call
\* marks the snapshot pending and leaves its content alone; the first
\* has_remaining that completes after it stores the current version and the
\* ready container as its try_fill_container left them, and clears the mark;
\* until the next remoteMoreAvailable call no has_remaining, get, next or
\* reset changes the snapshot again.
C28_LazySnapshot ==
    [][IsMerge =>
          /\ RemoteMoreAvailable =>
                 remoteMoreAvailableSnapshot' =
                     [remoteMoreAvailableSnapshot EXCEPT !.needSnapshot = TRUE]
          /\ (HasRemaining /\ remoteMoreAvailableSnapshot.needSnapshot /\ failure' = "none") =>
                 remoteMoreAvailableSnapshot' =
                     [needSnapshot |-> FALSE, version |-> currentVersion',
                      pCursorContainer |-> pCursorContainer']
          /\ (HasRemaining /\ ~remoteMoreAvailableSnapshot.needSnapshot) =>
                 UNCHANGED remoteMoreAvailableSnapshot
          /\ (GetNext \/ Reset) => UNCHANGED remoteMoreAvailableSnapshot]_vars

\* C28 witness: a has_remaining call has returned after the snapshot was
\* taken and VSMs were consumed: the snapshot still holds the container as
\* the refill left it, which is no longer the ready container.
C28_Witness ==
    /\ IsMerge
    /\ pc = "idle"
    /\ failure = "none"
    /\ result = "true"
    /\ ~remoteMoreAvailableSnapshot.needSnapshot
    /\ remoteMoreAvailableSnapshot.version = currentVersion
    /\ remoteMoreAvailableSnapshot.pCursorContainer # pCursorContainer

\* The peek task of team t has finished: its leaf got a reply with messages,
\* the end of the stream, or the last empty reply of its budget.
TaskStopped(t) == peek[t].st \in {"data", "eos", "timeout"}

\* C29: within one remoteMoreAvailable call of a merge cursor the task of
\* each leaf sends at most MERGE_CURSOR_RETRY_TIMES requests; it stops at the
\* first reply with messages or end of stream; after an empty reply that is
\* not the last of its budget it waits one backoff delay and only then sends
\* the next request, after the last one it reports a timeout without a
\* delay, so that a timeout is reported after exactly
\* MERGE_CURSOR_RETRY_TIMES empty replies; and the call returns whenever
\* every request is answered.
C29_RetryBudget ==
    /\ [][IsMerge =>
           \A t \in Teams :
               /\ peek'[t].st = "pending" => peek'[t].i < RetryTimes
               /\ EmptyReply(t) =>
                      peek'[t].st = IF peek[t].i + 1 = RetryTimes
                                    THEN "timeout" ELSE "backoff"
               /\ (peek[t].st # "pending" /\ peek'[t].st = "pending" /\ peek'[t].i > 0) =>
                      peek[t].st = "backoff" /\ peek'[t].i = peek[t].i
               /\ peek'[t].st = "timeout" => peek'[t].i = RetryTimes
               /\ (TaskStopped(t) /\ pc' = "rma") => peek'[t] = peek[t]]_vars
    /\ (IsMerge /\ pc = "rma") ~> (pc # "rma")

\* C29 witness: every task of a merge cursor's call has finished: one leaf's
\* task reported a timeout after the last empty reply of its budget and
\* another leaf's task stopped at a reply with messages after an earlier
\* empty one.
C29_Witness ==
    /\ IsMerge
    /\ pc = "rma"
    /\ failure = "none"
    /\ \A t \in Teams : peek[t].st \notin {"pending", "backoff"}
    /\ \E t, u \in Teams :
           /\ peek[t].st = "timeout"
           /\ peek[t].i = RetryTimes
           /\ peek[u].st = "data"
           /\ peek[u].i > 0

\* C30: in every reachable state of a merge cursor each leaf of the cursor
\* is in the ready container, in the set of empty leaves or in the set of
\* retired leaves.
C30_LeafAccountedFor ==
    IsMerge =>
        \A t \in mapper :
            \/ t \in InContainer(pCursorContainer)
            \/ t \in emptyCursorStorageTeamIDs
            \/ t \in retiredCursorStorageTeamIDs

\* C30 as the code has it: when has_remaining refills the ready container and
\* returns true, no leaf is left in the set of empty leaves and each leaf of
\* the cursor is in the ready container or in the set of retired leaves, the
\* leaves in the ready container being those that hold a buffered VSM. (At
\* other times a leaf that holds buffered VSMs, or that next has drained, can
\* be in none of the three until the next refill.)
C30_AccountedAfterFill ==
    [][(TryFills /\ result' = "true") =>
          /\ emptyCursorStorageTeamIDs' = {}
          /\ \A t \in mapper :
                 \/ t \in InContainer(pCursorContainer')
                 \/ t \in retiredCursorStorageTeamIDs'
          /\ \A t \in InContainer(pCursorContainer') :
                 LeafReady(deserializer', wrappedDeserializerIter', t)]_vars

\* C30 witness: a has_remaining call has refilled the ready container and
\* returned true while one leaf is in the container and another one is
\* retired and not in it.
C30_Witness ==
    /\ IsMerge
    /\ pc = "idle"
    /\ failure = "none"
    /\ result = "true"
    /\ ~remoteMoreAvailableSnapshot.needSnapshot
    /\ remoteMoreAvailableSnapshot.pCursorContainer = pCursorContainer
    /\ InContainer(pCursorContainer) # {}
    /\ retiredCursorStorageTeamIDs \ InContainer(pCursorContainer) # {}
    /\ emptyCursorStorageTeamIDs = {}

\* The VSMs a leaf's buffer holds that get() has never returned.
Undelivered(t) ==
    {<<t>> \o deserializer[t][i] : i \in 1..Len(deserializer[t])}
        \ (emittedBefore \cup emittedSince)

\* C31: a leaf whose remote ended during a remoteMoreAvailable call stays in
\* the cursor, recorded as retired, until the next remoteMoreAvailable call;
\* that call first removes the retired leaves from the cursor, from the ready
\* container and from the set of empty leaves and then clears the set of
\* retired leaves; and no leaf is removed this way while its buffer holds a
\* VSM that was never delivered.
C31_RetiredRemovedByNextCall ==
    [][IsMerge =>
          /\ (mapper' # mapper \/ ~(retiredCursorStorageTeamIDs \subseteq retiredCursorStorageTeamIDs'))
                 => RemoteMoreAvailable
          /\ (pc = "rma" /\ pc' # "rma" /\ failure' = "none") =>
                 /\ {t \in Teams : peek[t].st = "eos"} \subseteq mapper'
                 /\ retiredCursorStorageTeamIDs' =
                        retiredCursorStorageTeamIDs \cup {t \in Teams : peek[t].st = "eos"}
          /\ (RemoteMoreAvailable /\ failure' = "none") =>
                 /\ mapper' = mapper \ retiredCursorStorageTeamIDs
                 /\ InContainer(pCursorContainer') =
                        InContainer(pCursorContainer) \ retiredCursorStorageTeamIDs
                 /\ emptyCursorStorageTeamIDs' =
                        emptyCursorStorageTeamIDs \ retiredCursorStorageTeamIDs
                 /\ retiredCursorStorageTeamIDs' = {}
                 /\ \A t \in retiredCursorStorageTeamIDs : Undelivered(t) = {}]_vars

\* C31 witness: a remoteMoreAvailable call has removed a leaf whose VSMs had
\* all been delivered and is now peeking the leaves that remain.
C31_Witness ==
    /\ IsMerge
    /\ pc = "rma"
    /\ failure = "none"
    /\ retiredCursorStorageTeamIDs = {}
    /\ \E t \in Teams \ mapper :
           /\ tlog[t] # <<>>
           /\ TeamLogFromBegin(t) \subseteq emittedBefore \cup emittedSince

\* C32: for a merge cursor with two or more leaves, once the current version
\* is a valid version no step makes it invalid again while some leaf of the
\* cursor is not retired.
C32_CurrentVersionStaysValid ==
    [][(/\ IsMerge
        /\ Cardinality(mapper) >= 2
        /\ mapper \ retiredCursorStorageTeamIDs # {}
        /\ currentVersion # invalidVersion
        /\ failure' = "none")
       => currentVersion' # invalidVersion]_vars

\* C33: reset() on a merge cursor whose snapshot version is invalid changes
\* nothing: the current version, the ready container, the sets of empty and
\* of retired leaves and the position of every leaf stay as they are.
C33_ResetWithoutSnapshot ==
    [][(IsMerge /\ Reset /\ remoteMoreAvailableSnapshot.version = invalidVersion) =>
          UNCHANGED <<currentVersion, pCursorContainer, emptyCursorStorageTeamIDs,
                      retiredCursorStorageTeamIDs, wrappedDeserializerIter, mapper,
                      deserializer, remoteMoreAvailableSnapshot>>]_vars

\* C33 witness: reset() has returned on a cursor whose snapshot version is
\* invalid, after a remoteMoreAvailable call filled a leaf and before any
\* has_remaining took a snapshot.
C33_Witness ==
    /\ IsMerge
    /\ driver = "track"
    /\ pc = "idle"
    /\ failure = "none"
    /\ result = "none"
    /\ lastGet = NoGet
    /\ remoteMoreAvailableSnapshot = [needSnapshot |-> TRUE, version |-> invalidVersion,
                                      pCursorContainer |-> <<>>]
    /\ \E t \in mapper : LeafReady(deserializer, wrappedDeserializerIter, t)

\* C34: the merge cursor peeks a leaf only when the leaf holds no buffered
\* VSM that is still to be consumed: while a peek request of a leaf is in
\* flight or waits to be retried, the leaf's buffer is drained, so the reply
\* never overwrites a VSM that is still to be delivered.
C34_PeeksOnlyDrainedLeaves ==
    IsMerge =>
        \A t \in Teams :
            peek[t].st \in {"pending", "backoff"} =>
                ~LeafReady(deserializer, wrappedDeserializerIter, t)

\* C35: in every reachable state every leaf the ready container refers to
\* is a leaf of the cursor, also after removeCursor followed by reset().
C35_ContainerWithinMapper ==
    (IsMerge /\ failure = "none") => InContainer(pCursorContainer) \subseteq mapper

\* C36: whenever remoteMoreAvailable is entered on a merge cursor, every
\* retired leaf is a leaf of the cursor, so that removing the retired leaves
\* fails no assertion, whatever public operations the caller made before.
C36_RetiredWithinMapper ==
    [][(IsMerge /\ RemoteMoreAvailable) =>
          /\ retiredCursorStorageTeamIDs \subseteq mapper
          /\ failure' # "assert"]_vars

\* C39: after every completed public operation on a merge cursor the set of
\* empty leaves and the set of retired leaves are disjoint.
C39_EmptyRetiredDisjoint ==
    (IsMerge /\ pc = "idle" /\ failure = "none") =>
        emptyCursorStorageTeamIDs \cap retiredCursorStorageTeamIDs = {}

\* C37: advanceTo reads the cursor's current VSM only while the cursor has a
\* VSM remaining: when the has_remaining it evaluates, in its outer loop or
\* while it skips subsequences inside the target version, finds the cursor
\* drained, the actor reads no VSM.
C37_AdvanceToReadsOnlyRemaining ==
    [][(/\ advance.active
        /\ pc \in {"advOuter", "advInner"}
        /\ HasRemaining
        /\ pCursorContainer' = <<>>)
       => failure' # "undefined"]_vars

\* C38: a leaf cursor constructed with begin version B never sends a peek
\* request that begins below B, and never hands out a VSM whose version is
\* below B.
C38_NothingBelowBegin ==
    cursorType = "leaf" =>
        /\ \A t \in Teams : peek[t].st = "pending" => peek[t].begin >= BeginVersion
        /\ \A i \in 1..Len(messages) : messages[i][2] >= BeginVersion

\* C40: ServerPeekCursor, getMore without parallelGetMore: when the peek
\* request fails with end_of_stream, getMore completes without raising and end
\* becomes the first position of the cursor's current message version, the
\* cursor standing where it stood; from then on isExhausted() is true,
\* isActive() is false, and no later getMore sends a peek request.
C40_EndOfStreamExhausts ==
    /\ [](serverPeekCursor.caughtEndOfStream =>
             /\ isExhausted(serverPeekCursor)
             /\ ~isActive(serverPeekCursor)
             /\ serverPeekCursor.more # "pending")
    /\ [][/\ (~serverPeekCursor.caughtEndOfStream /\ serverPeekCursor'.caughtEndOfStream) =>
               /\ serverPeekCursor.more = "pending"
               /\ serverPeekCursor'.more = "ready"
               /\ result' = "ready"
               /\ serverPeekCursor'.messageVersion = serverPeekCursor.messageVersion
               /\ serverPeekCursor'.end =
                      LogMessageVersion(serverPeekCursor.messageVersion.version, 0)
          /\ serverPeekCursor.caughtEndOfStream =>
               /\ serverPeekCursor'.request = serverPeekCursor.request
               /\ serverPeekCursor'.end = serverPeekCursor.end]_vars

\* A cursor that read past its begin version, caught end_of_stream, and whose
\* next getMore waits without a request.
C40_Witness ==
    /\ driver = "server"
    /\ serverPeekCursor.caughtEndOfStream
    /\ serverPeekCursor.more = "never"
    /\ serverPeekCursor.messageVersion.version > BeginVersion
    /\ serverPeekCursor.messageVersion.version <= LastCommitted

====
